---- MODULE Spec2Model ----
(***************************************************************************)
(* Family-care backend: the family_members permission model, the handlers  *)
(* of the family routes, the permission gates of the resource routes and   *)
(* the stores they write.                                                  *)
(*                                                                         *)
(* Spec     the family routes and checkFamilyPermission, each request      *)
(*          handled as one action.                                         *)
(* SpecConc the family routes split at their store writes: the reads and   *)
(*          early returns that precede the first write form the "check"    *)
(*          step and each write is a step of its own, so that two requests *)
(*          interleave between a check and the write it guards.            *)
(* SpecRes  the create, update and delete routes of parents, medications,  *)
(*          appointments and documents, each request handled as one        *)
(*          action.                                                        *)
(* SpecPush createNotification in its two steps, the insert and the push   *)
(*          deliveries, with every result a delivery can report.           *)
(* SpecJobs the reminder scans and the sweeps of the scheduler over a      *)
(*          store with members, medications and appointments, and a clock  *)
(*          that moves on.                                                 *)
(* SpecSweep the appointment status route next to the status sweep.        *)
(* SpecCare the routes from a new recipient to a confirmed dose, and the   *)
(*          weekly report.                                                 *)
(* SpecCadence the medication reminder scan on every tick of its default   *)
(*          cron expression, day after day.                                *)
(* SpecDeliver sendPushNotification with one step per delivery.            *)
(* SpecNotify the handlers that notify after their write, with every       *)
(*          outcome of the insert and of the deliveries.                   *)
(* SpecCron the seven cron callbacks over a week of ticks that repeats;    *)
(*          SpecCronLive adds that a callback whose tick has come runs.    *)
(* The handlers of Spec and SpecConc are built from the same definitions.  *)
(***************************************************************************)
EXTENDS Integers, FiniteSets, Sequences, TLC

\* ------------------------------------------------------------------------
\* Domains and bounds
\* ------------------------------------------------------------------------
Users == {"u1", "u2", "u3"}
\* the users whose requests the model follows, and the addresses they invite
Actors == {"u1", "u2"}
Emails == {"e1", "e2", "e0"}
ParentIds == {"p1"}
Sessions == {"s1", "s2"}
Roles == {"admin", "editor", "viewer"}
Statuses == {"active", "pending", "inactive"}
Permissions == {"view", "edit", "delete"}

MaxMemberId == 3

NoUser == "none"
NoParent == "none"

\* profiles table: one registered profile per user, email UNIQUE; "e0" is an
\* address no profile has.
profiles ==
  { [id |-> "u1", email |-> "e1"],
    [id |-> "u2", email |-> "e2"],
    [id |-> "u3", email |-> "e3"] }


AllTrue == [can_view |-> TRUE, can_edit |-> TRUE, can_delete |-> TRUE]
EditorPerms == [can_view |-> TRUE, can_edit |-> TRUE, can_delete |-> FALSE]
DefaultPerms == [can_view |-> TRUE, can_edit |-> FALSE, can_delete |-> FALSE]
NoneTrue == [can_view |-> FALSE, can_edit |-> FALSE, can_delete |-> FALSE]

DeleteOnly == [can_view |-> FALSE, can_edit |-> FALSE, can_delete |-> TRUE]

\* the explicit permissions objects the requests of the model carry
PermInputs == {AllTrue, DeleteOnly, NoneTrue}

\* data: null of a family_members query
NullRow ==
  [id |-> 0, parent_id |-> NoParent, user_id |-> NoUser, role |-> "none",
   permissions |-> DefaultPerms, status |-> "none", invited_by |-> NoUser,
   accepted_at |-> FALSE]

\* supabase .single(): the row when exactly one row matches, else data: null
Single(S) == IF Cardinality(S) = 1 THEN CHOOSE r \in S : TRUE ELSE NullRow

\* an optional body field is the empty set (absent) or a singleton (given)
Opt(S) == {{}} \cup {{x} : x \in S}
Get(o) == CHOOSE x \in o : TRUE

VARIABLES
  parents,          \* rows of table parents
  usedParents,      \* parent ids ever generated (uuids are never reused)
  family_members,   \* rows of table family_members
  nextId,           \* next generated family_members.id
  resources,        \* rows of medications, appointments and documents
  nextRid,          \* next generated id of a resource row
  sess,             \* per connection: the request in flight and its locals
  ev,               \* the step just taken: request, response code sent
  notifications,    \* rows of table notifications
  nextNid,          \* next generated notifications.id
  push_subscriptions, \* rows of table push_subscriptions
  now               \* the server clock (new Date())

vars ==
  <<parents, usedParents, family_members, nextId, resources, nextRid, sess,
    ev, notifications, nextNid, push_subscriptions, now>>
store ==
  <<parents, usedParents, family_members, nextId, resources, nextRid>>
\* the tables and the clock the notification service and the jobs work on
service ==
  <<notifications, nextNid, push_subscriptions, now>>

Idle ==
  [op |-> "idle", pc |-> "idle", actor |-> NoUser, parent |-> NoParent,
   mid |-> 0, mid2 |-> 0, user |-> NoUser, role |-> {}, perms |-> {},
   self |-> FALSE]

\* phase: "req" a whole request, "check" its reads, "write" one of its writes
\* code: the HTTP status sent in the step, 0 when none is sent yet
NoEvent ==
  [op |-> "none", phase |-> "none", actor |-> NoUser, parent |-> NoParent,
   user |-> NoUser, mid |-> 0, code |-> 0, notified |-> {}, push |-> {}]

\* a step that inserts no notification row
Event(op, phase, actor, parent, user, mid, code) ==
  [op |-> op, phase |-> phase, actor |-> actor, parent |-> parent,
   user |-> user, mid |-> mid, code |-> code, notified |-> {}, push |-> {}]

\* a step that ends with the notification rows n inserted
EventN(op, phase, actor, parent, user, mid, code, n) ==
  [op |-> op, phase |-> phase, actor |-> actor, parent |-> parent,
   user |-> user, mid |-> mid, code |-> code, notified |-> n, push |-> {}]

\* ------------------------------------------------------------------------
\* Store queries and writes
\* ------------------------------------------------------------------------
\* .from('family_members').eq('parent_id', p).eq('user_id', u).single()
MemberOf(fm, p, u) == Single({r \in fm : r.parent_id = p /\ r.user_id = u})

\* ... .eq('status', 'active').single()
ActiveMemberOf(fm, p, u) ==
  Single({r \in fm : r.parent_id = p /\ r.user_id = u /\ r.status = "active"})

\* .from('family_members').eq('id', id).single()
MemberById(fm, id) == Single({r \in fm : r.id = id})

\* .from('profiles').eq('email', e).single()
ProfileByEmail(e) ==
  LET m == {pr \in profiles : pr.email = e}
  IN IF Cardinality(m) = 1 THEN (CHOOSE pr \in m : TRUE).id ELSE NoUser

\* a table without the UNIQUE constraint
UniqueMember_unchecked(fm, row) == TRUE

\* family_members: UNIQUE(parent_id, user_id)
UniqueMember(fm, row) ==
  ~ \E r \in fm : r.parent_id = row.parent_id /\ r.user_id = row.user_id

\* family_members.parent_id REFERENCES parents(id)
ParentExists(ps, row) == \E p \in ps : p.id = row.parent_id

\* an INSERT into family_members succeeds iff the table constraints hold
CanInsertMember(fm, ps, row) == UniqueMember(fm, row) /\ ParentExists(ps, row)

\* .update(fields).eq('id', id)
\* new: the row of that id with the fields written
UpdateById(fm, id, new) == {IF r.id = id THEN new ELSE r : r \in fm}

\* .delete().eq('id', id)
DeleteById(fm, id) == {r \in fm : r.id # id}

\* NotificationService.createNotification: the user_id values of the rows it
\* inserts into notifications (none when user_id references no profile)
createNotification(userId) == IF userId \in Users THEN {userId} ELSE {}

Tables == {"medications", "appointments", "documents", "medication_logs"}

Init ==
  /\ parents = {}
  /\ usedParents = {}
  /\ family_members = {}
  /\ nextId = 1
  /\ resources = [t \in Tables |-> {}]
  /\ nextRid = 1
  /\ sess = [s \in Sessions |-> Idle]
  /\ ev = NoEvent
  /\ notifications = {}
  /\ nextNid = 1
  /\ push_subscriptions = {}
  /\ now = [day |-> 0, hour |-> 0, minute |-> 0]

\* ------------------------------------------------------------------------
\* POST /api/parents
\* ------------------------------------------------------------------------
\* parents.id ON DELETE CASCADE: the rows that reference the parent go too
CascadeMembers(fm, p) == {r \in fm : r.parent_id # p}
CascadeResources(rs, p) == [t \in Tables |-> {x \in rs[t] : x.parent_id # p}]

ParentRow(p) == [id |-> p, val |-> "a"]

\* the creator's membership
CreatorRow(id, p, userId) ==
  [id |-> id, parent_id |-> p, user_id |-> userId, role |-> "admin",
   permissions |-> AllTrue, status |-> "active", invited_by |-> userId,
   accepted_at |-> TRUE]

\* a rollback that leaves the parent row in place
RollbackParent_none(ps, p) == ps

\* await supabase.from('parents').delete().eq('id', parent.id)
RollbackParent(ps, p) == {q \in ps : q.id # p}

\* the membership insert; on familyError the parent is deleted again
CreateParentFamilyWrite(r, phase, ok) ==
  LET row == CreatorRow(nextId, r.parent, r.actor)
  IN IF ok /\ CanInsertMember(family_members, parents, row)
     THEN /\ nextId <= MaxMemberId
          /\ family_members' = family_members \cup {row}
          /\ nextId' = nextId + 1
          /\ UNCHANGED <<parents, resources>>
          /\ ev' = Event("createParent", phase, r.actor, r.parent, r.actor,
                         row.id, 201)
     ELSE /\ parents' = RollbackParent(parents, r.parent)
          /\ family_members' = CascadeMembers(family_members, r.parent)
          /\ resources' = CascadeResources(resources, r.parent)
          /\ nextId' = nextId
          /\ ev' = Event("createParent", phase, r.actor, r.parent, r.actor, 0,
                         500)

CreateParentRequest(userId, p) ==
  [Idle EXCEPT !.op = "createParent", !.pc = "family", !.actor = userId,
               !.parent = p]

\* step: insert into parents (id generated)
CreateParentInsert(s, userId) ==
  /\ sess[s] = Idle
  /\ nextId <= MaxMemberId
  /\ \E p \in ParentIds \ usedParents :
       /\ parents' = parents \cup {ParentRow(p)}
       /\ usedParents' = usedParents \cup {p}
       /\ sess' = [sess EXCEPT ![s] = CreateParentRequest(userId, p)]
       /\ ev' = Event("createParent", "write", userId, p, NoUser, 0, 0)
  /\ UNCHANGED <<family_members, nextId, resources, nextRid>>

\* step: the membership insert
CreateParentFamily(s, ok) ==
  /\ sess[s].op = "createParent" /\ sess[s].pc = "family"
  /\ CreateParentFamilyWrite(sess[s], "write", ok)
  /\ sess' = [sess EXCEPT ![s] = Idle]
  /\ UNCHANGED <<usedParents, nextRid>>

\* the whole handler
CreateParent(userId, ok) ==
  /\ nextId <= MaxMemberId
  /\ \E p \in ParentIds \ usedParents :
       LET row == CreatorRow(nextId, p, userId)
           ps == parents \cup {ParentRow(p)}
       IN /\ usedParents' = usedParents \cup {p}
          /\ IF ok /\ CanInsertMember(family_members, ps, row)
             THEN /\ parents' = ps
                  /\ family_members' = family_members \cup {row}
                  /\ nextId' = nextId + 1
                  /\ resources' = resources
                  /\ ev' = Event("createParent", "req", userId, p, userId,
                                 row.id, 201)
             ELSE /\ parents' = RollbackParent(ps, p)
                  /\ family_members' = CascadeMembers(family_members, p)
                  /\ resources' = CascadeResources(resources, p)
                  /\ nextId' = nextId
                  /\ ev' = Event("createParent", "req", userId, p, userId, 0,
                                 500)
  /\ UNCHANGED <<sess, nextRid>>

\* ------------------------------------------------------------------------
\* POST /api/family/invite
\* ------------------------------------------------------------------------
\* defaults that ignore the role
InviteDefaults_viewerOnly(role) == DefaultPerms

\* permissions derived from the role when the body gives none
InviteDefaults(role) ==
  [can_view |-> TRUE,
   can_edit |-> (role = "editor" \/ role = "admin"),
   can_delete |-> (role = "admin")]

\* "Verifica se é admin": the inviter's row, any status
InviterIsAdmin(fm, p, u) ==
  LET inviter == MemberOf(fm, p, u)
  IN inviter # NullRow /\ inviter.role = "admin"

\* a membership check that looks at active rows only
ExistingBlocks_activeOnly(existingMember) ==
  existingMember # NullRow /\ existingMember.status = "active"

\* "Verifica se já não é membro": rejected when active or pending
ExistingBlocks(existingMember) ==
  existingMember # NullRow /\ existingMember.status \in {"active", "pending"}

InviteCode(fm, userId, parent_id, email) ==
  LET invitedUser == ProfileByEmail(email)
      existingMember == MemberOf(fm, parent_id, invitedUser)
  IN IF ~InviterIsAdmin(fm, parent_id, userId) THEN 403
     ELSE IF invitedUser = NoUser THEN 404
     ELSE IF ExistingBlocks(existingMember) THEN 400
     ELSE 0

\* what the handler holds once its checks have passed
InviteRequest(userId, parent_id, email, role, permsOpt) ==
  [Idle EXCEPT !.op = "invite", !.pc = "insert", !.actor = userId,
               !.parent = parent_id, !.user = ProfileByEmail(email),
               !.role = {role},
               !.perms = {IF permsOpt = {} THEN InviteDefaults(role)
                          ELSE Get(permsOpt)}]

InviteRow(id, r) ==
  [id |-> id, parent_id |-> r.parent, user_id |-> r.user,
   role |-> Get(r.role), permissions |-> Get(r.perms), status |-> "pending",
   invited_by |-> r.actor, accepted_at |-> FALSE]

\* "Cria o convite" and the notification of the invited user
InviteWrite(r, phase) ==
  LET row == InviteRow(nextId, r)
  IN /\ IF CanInsertMember(family_members, parents, row)
        THEN /\ nextId <= MaxMemberId
             /\ family_members' = family_members \cup {row}
             /\ nextId' = nextId + 1
             /\ ev' = EventN("invite", phase, r.actor, r.parent, r.user,
                             row.id, 201, createNotification(r.user))
        ELSE /\ UNCHANGED <<family_members, nextId>>
             /\ ev' = Event("invite", phase, r.actor, r.parent, r.user, 0, 500)
     /\ UNCHANGED <<parents, usedParents, resources, nextRid>>

InviteCheck(s, userId, parent_id, email, role, permsOpt) ==
  /\ sess[s] = Idle
  /\ LET code == InviteCode(family_members, userId, parent_id, email)
     IN /\ code = 0 => nextId <= MaxMemberId
        /\ sess' = IF code = 0
                   THEN [sess EXCEPT ![s] =
                          InviteRequest(userId, parent_id, email, role,
                                        permsOpt)]
                   ELSE sess
        /\ ev' = Event("invite", "check", userId, parent_id,
                       ProfileByEmail(email), 0, code)
  /\ UNCHANGED store

InviteInsert(s) ==
  /\ sess[s].op = "invite" /\ sess[s].pc = "insert"
  /\ InviteWrite(sess[s], "write")
  /\ sess' = [sess EXCEPT ![s] = Idle]

\* the whole handler
Invite(userId, parent_id, email, role, permsOpt) ==
  /\ LET code == InviteCode(family_members, userId, parent_id, email)
     IN IF code = 0
        THEN InviteWrite(InviteRequest(userId, parent_id, email, role,
                                       permsOpt), "req")
        ELSE /\ UNCHANGED store
             /\ ev' = Event("invite", "req", userId, parent_id,
                            ProfileByEmail(email), 0, code)
  /\ UNCHANGED sess

\* ------------------------------------------------------------------------
\* POST /api/family/invites/:inviteId/accept and /decline
\* ------------------------------------------------------------------------
\* the lookup without .eq('user_id', userId)
PendingInvite_anyUser(fm, inviteId, userId) ==
  Single({r \in fm : r.id = inviteId /\ r.status = "pending"})

\* .eq('id', inviteId).eq('user_id', userId).eq('status', 'pending').single()
PendingInvite(fm, inviteId, userId) ==
  Single({r \in fm : r.id = inviteId /\ r.user_id = userId
                     /\ r.status = "pending"})

AcceptCode(fm, userId, inviteId) ==
  IF PendingInvite(fm, inviteId, userId) = NullRow THEN 404 ELSE 0

AcceptRequest(fm, userId, inviteId) ==
  LET invite == PendingInvite(fm, inviteId, userId)
  IN [Idle EXCEPT !.op = "accept", !.pc = "update", !.actor = userId,
                  !.parent = invite.parent_id, !.mid = inviteId,
                  !.user = invite.invited_by]

AcceptRow(r) == [r EXCEPT !.status = "active", !.accepted_at = TRUE]

\* .update({status: 'active', accepted_at}).eq('id', inviteId).select().single()
\* and the notification of the inviter
AcceptWrite(r, phase) ==
  /\ IF MemberById(family_members, r.mid) # NullRow
     THEN /\ family_members' = UpdateById(family_members, r.mid,
                                          AcceptRow(MemberById(family_members, r.mid)))
          /\ ev' = EventN("accept", phase, r.actor, r.parent, r.user, r.mid,
                          200, createNotification(r.user))
     ELSE /\ UNCHANGED family_members
          /\ ev' = Event("accept", phase, r.actor, r.parent, r.user, r.mid,
                         500)
  /\ UNCHANGED <<parents, usedParents, nextId, resources, nextRid>>

AcceptCheck(s, userId, inviteId) ==
  /\ sess[s] = Idle
  /\ LET code == AcceptCode(family_members, userId, inviteId)
         r == AcceptRequest(family_members, userId, inviteId)
     IN /\ sess' = IF code = 0 THEN [sess EXCEPT ![s] = r] ELSE sess
        /\ ev' = Event("accept", "check", userId, r.parent, r.user, inviteId,
                       code)
  /\ UNCHANGED store

AcceptUpdate(s) ==
  /\ sess[s].op = "accept" /\ sess[s].pc = "update"
  /\ AcceptWrite(sess[s], "write")
  /\ sess' = [sess EXCEPT ![s] = Idle]

Accept(userId, inviteId) ==
  /\ LET code == AcceptCode(family_members, userId, inviteId)
         r == AcceptRequest(family_members, userId, inviteId)
     IN IF code = 0
        THEN AcceptWrite(r, "req")
        ELSE /\ UNCHANGED store
             /\ ev' = Event("accept", "req", userId, r.parent, r.user,
                            inviteId, code)
  /\ UNCHANGED sess

DeclineCode(fm, userId, inviteId) ==
  IF PendingInvite(fm, inviteId, userId) = NullRow THEN 404 ELSE 0

DeclineRequest(fm, userId, inviteId) ==
  LET invite == PendingInvite(fm, inviteId, userId)
  IN [Idle EXCEPT !.op = "decline", !.pc = "delete", !.actor = userId,
                  !.parent = invite.parent_id, !.mid = inviteId,
                  !.user = invite.invited_by]

\* a decline that keeps the row and marks it inactive
DeclineWrite_softCancel(r, phase) ==
  /\ family_members' = UpdateById(family_members, r.mid,
         [MemberById(family_members, r.mid) EXCEPT !.status = "inactive"])
  /\ ev' = EventN("decline", phase, r.actor, r.parent, r.user, r.mid, 200,
                  createNotification(r.user))
  /\ UNCHANGED <<parents, usedParents, nextId, resources, nextRid>>

\* .delete().eq('id', inviteId), then the inviter is notified
DeclineWrite(r, phase) ==
  /\ family_members' = DeleteById(family_members, r.mid)
  /\ ev' = EventN("decline", phase, r.actor, r.parent, r.user, r.mid, 200,
                  createNotification(r.user))
  /\ UNCHANGED <<parents, usedParents, nextId, resources, nextRid>>

DeclineCheck(s, userId, inviteId) ==
  /\ sess[s] = Idle
  /\ LET code == DeclineCode(family_members, userId, inviteId)
         r == DeclineRequest(family_members, userId, inviteId)
     IN /\ sess' = IF code = 0 THEN [sess EXCEPT ![s] = r] ELSE sess
        /\ ev' = Event("decline", "check", userId, r.parent, r.user, inviteId,
                       code)
  /\ UNCHANGED store

DeclineDelete(s) ==
  /\ sess[s].op = "decline" /\ sess[s].pc = "delete"
  /\ DeclineWrite(sess[s], "write")
  /\ sess' = [sess EXCEPT ![s] = Idle]

Decline(userId, inviteId) ==
  /\ LET code == DeclineCode(family_members, userId, inviteId)
         r == DeclineRequest(family_members, userId, inviteId)
     IN IF code = 0
        THEN DeclineWrite(r, "req")
        ELSE /\ UNCHANGED store
             /\ ev' = Event("decline", "req", userId, r.parent, r.user,
                            inviteId, code)
  /\ UNCHANGED sess

\* ------------------------------------------------------------------------
\* PATCH /api/family/members/:memberId/permissions
\* ------------------------------------------------------------------------
\* "Verifica se é admin": the requester's row on the target's parent
RequesterIsAdmin(fm, p, u) ==
  LET adminCheck == MemberOf(fm, p, u)
  IN adminCheck # NullRow /\ adminCheck.role = "admin"

\* the checks without "Não pode alterar próprias permissões"
UpdatePermissionsCode_noSelfCheck(fm, userId, memberId) ==
  LET member == MemberById(fm, memberId)
  IN IF member = NullRow THEN 404
     ELSE IF ~RequesterIsAdmin(fm, member.parent_id, userId) THEN 403
     ELSE 0

UpdatePermissionsCode(fm, userId, memberId) ==
  LET member == MemberById(fm, memberId)
  IN IF member = NullRow THEN 404
     ELSE IF ~RequesterIsAdmin(fm, member.parent_id, userId) THEN 403
     ELSE IF member.user_id = userId THEN 400
     ELSE 0

UpdatePermissionsRequest(fm, userId, memberId, roleOpt, permsOpt) ==
  LET member == MemberById(fm, memberId)
  IN [Idle EXCEPT !.op = "updatePermissions", !.pc = "update",
                  !.actor = userId, !.parent = member.parent_id,
                  !.mid = memberId, !.user = member.user_id,
                  !.role = roleOpt, !.perms = permsOpt]

\* updates: role when body.role is given, permissions when given
ApplyUpdates(r, roleOpt, permsOpt) ==
  [r EXCEPT !.role = IF roleOpt = {} THEN @ ELSE Get(roleOpt),
            !.permissions = IF permsOpt = {} THEN @ ELSE Get(permsOpt)]

\* .update(updates).eq('id', memberId).select().single(), then the member is
\* notified
UpdatePermissionsWrite(r, phase) ==
  /\ LET upd == ApplyUpdates(MemberById(family_members, r.mid), r.role,
                             r.perms)
     IN IF MemberById(family_members, r.mid) # NullRow
        THEN /\ family_members' = UpdateById(family_members, r.mid, upd)
             /\ ev' = EventN("updatePermissions", phase, r.actor, r.parent,
                             r.user, r.mid, 200, createNotification(r.user))
        ELSE /\ UNCHANGED family_members
             /\ ev' = Event("updatePermissions", phase, r.actor, r.parent,
                            r.user, r.mid, 500)
  /\ UNCHANGED <<parents, usedParents, nextId, resources, nextRid>>

UpdatePermissions(userId, memberId, roleOpt, permsOpt) ==
  /\ LET code == UpdatePermissionsCode(family_members, userId, memberId)
         r == UpdatePermissionsRequest(family_members, userId, memberId,
                                       roleOpt, permsOpt)
     IN IF code = 0
        THEN UpdatePermissionsWrite(r, "req")
        ELSE /\ UNCHANGED store
             /\ ev' = Event("updatePermissions", "req", userId, r.parent,
                            r.user, memberId, code)
  /\ UNCHANGED sess

\* ------------------------------------------------------------------------
\* DELETE /api/family/members/:memberId
\* ------------------------------------------------------------------------
\* an admin count without the status filter
ActiveAdmins_anyStatus(fm, p) ==
  {r \in fm : r.parent_id = p /\ r.role = "admin"}

\* .eq('parent_id', p).eq('role', 'admin').eq('status', 'active')
ActiveAdmins(fm, p) ==
  {r \in fm : r.parent_id = p /\ r.role = "admin" /\ r.status = "active"}

\* "Não pode remover o último admin"
LastAdminGuard(fm, member) ==
  member.role = "admin" /\ Cardinality(ActiveAdmins(fm, member.parent_id)) = 1

RemoveCode(fm, userId, memberId) ==
  LET member == MemberById(fm, memberId)
      adminCheck == MemberOf(fm, member.parent_id, userId)
      isSelfRemoval == member.user_id = userId
      isAdmin == adminCheck.role = "admin"
  IN IF member = NullRow THEN 404
     ELSE IF ~isSelfRemoval /\ ~isAdmin THEN 403
     ELSE IF LastAdminGuard(fm, member) THEN 400
     ELSE 0

RemoveRequest(fm, userId, memberId) ==
  LET member == MemberById(fm, memberId)
  IN [Idle EXCEPT !.op = "remove", !.pc = "delete", !.actor = userId,
                  !.parent = member.parent_id, !.mid = memberId,
                  !.user = member.user_id,
                  !.self = (member.user_id = userId)]

\* "Remove o membro", then the removed member is notified unless self-removal
RemoveWrite(r, phase) ==
  /\ family_members' = DeleteById(family_members, r.mid)
  /\ ev' = EventN("remove", phase, r.actor, r.parent, r.user, r.mid, 200,
                  IF r.self THEN {} ELSE createNotification(r.user))
  /\ UNCHANGED <<parents, usedParents, nextId, resources, nextRid>>

RemoveCheck(s, userId, memberId) ==
  /\ sess[s] = Idle
  /\ LET code == RemoveCode(family_members, userId, memberId)
         r == RemoveRequest(family_members, userId, memberId)
     IN /\ sess' = IF code = 0 THEN [sess EXCEPT ![s] = r] ELSE sess
        /\ ev' = Event("remove", "check", userId, r.parent, r.user, memberId,
                       code)
  /\ UNCHANGED store

RemoveDelete(s) ==
  /\ sess[s].op = "remove" /\ sess[s].pc = "delete"
  /\ RemoveWrite(sess[s], "write")
  /\ sess' = [sess EXCEPT ![s] = Idle]

Remove(userId, memberId) ==
  /\ LET code == RemoveCode(family_members, userId, memberId)
         r == RemoveRequest(family_members, userId, memberId)
     IN IF code = 0
        THEN RemoveWrite(r, "req")
        ELSE /\ UNCHANGED store
             /\ ev' = Event("remove", "req", userId, r.parent, r.user,
                            memberId, code)
  /\ UNCHANGED sess

\* ------------------------------------------------------------------------
\* POST /api/family/members/:memberId/transfer-admin
\* ------------------------------------------------------------------------
TransferCode(fm, userId, memberId) ==
  LET targetMember == MemberById(fm, memberId)
      currentAdmin == MemberOf(fm, targetMember.parent_id, userId)
  IN IF targetMember = NullRow \/ targetMember.status # "active" THEN 404
     ELSE IF currentAdmin = NullRow \/ currentAdmin.role # "admin" THEN 403
     ELSE 0

TransferRequest(fm, userId, memberId) ==
  LET targetMember == MemberById(fm, memberId)
      currentAdmin == MemberOf(fm, targetMember.parent_id, userId)
  IN [Idle EXCEPT !.op = "transfer", !.pc = "upgrade", !.actor = userId,
                  !.parent = targetMember.parent_id, !.mid = memberId,
                  !.mid2 = currentAdmin.id, !.user = targetMember.user_id]

UpgradeRow(r) == [r EXCEPT !.role = "admin", !.permissions = AllTrue]
DowngradeRow(r) == [r EXCEPT !.role = "editor", !.permissions = EditorPerms]

\* "Atualiza novo admin": .update({role: 'admin', ...}).eq('id', memberId)
TransferUpgradeApply(fm, r) ==
  UpdateById(fm, r.mid, UpgradeRow(MemberById(fm, r.mid)))

\* "Rebaixa admin atual para editor": .update(...).eq('id', currentAdmin.id)
TransferDowngradeApply(fm, r) ==
  UpdateById(fm, r.mid2, DowngradeRow(MemberById(fm, r.mid2)))

\* the whole handler; ok1, ok2: whether the store accepts the two writes
TransferAdmin(userId, memberId, ok1, ok2) ==
  /\ LET code == TransferCode(family_members, userId, memberId)
         r == TransferRequest(family_members, userId, memberId)
         up == TransferUpgradeApply(family_members, r)
     IN IF code # 0
        THEN /\ UNCHANGED family_members
             /\ ev' = Event("transfer", "req", userId, r.parent, r.user,
                            memberId, code)
        ELSE IF ~ok1
        THEN /\ UNCHANGED family_members
             /\ ev' = Event("transfer", "req", userId, r.parent, r.user,
                            memberId, 500)
        ELSE IF ~ok2
        THEN /\ family_members' = up
             /\ ev' = Event("transfer", "req", userId, r.parent, r.user,
                            memberId, 500)
        ELSE /\ family_members' = TransferDowngradeApply(up, r)
             /\ ev' = EventN("transfer", "req", userId, r.parent, r.user,
                             memberId, 200, createNotification(r.user))
  /\ UNCHANGED <<parents, usedParents, nextId, resources, nextRid, sess>>

\* ------------------------------------------------------------------------
\* checkFamilyPermission(permission) middleware
\* ------------------------------------------------------------------------
\* "Verifica permissão específica"
StoredFlag(row, permission) ==
  IF permission = "view" THEN row.permissions.can_view
  ELSE IF permission = "edit" THEN row.permissions.can_edit
  ELSE row.permissions.can_delete

\* a check without the admin branch
checkFamilyPermission_flagOnly(fm, permission, userId, parentId) ==
  LET familyMember == ActiveMemberOf(fm, parentId, userId)
  IN IF familyMember = NullRow THEN 403
     ELSE IF ~StoredFlag(familyMember, permission) THEN 403
     ELSE 0

\* 0: next() is called; 403: Forbidden
checkFamilyPermission(fm, permission, userId, parentId) ==
  LET familyMember == ActiveMemberOf(fm, parentId, userId)
  IN IF familyMember = NullRow THEN 403
     ELSE IF familyMember.role = "admin" THEN 0
     ELSE IF ~StoredFlag(familyMember, permission) THEN 403
     ELSE 0

\* a request through a route guarded by the middleware
GuardedRoute(userId, parentId, permission) ==
  /\ ev' = Event(permission, "guard", userId, parentId, NoUser, 0,
                 checkFamilyPermission(family_members, permission, userId,
                                       parentId))
  /\ UNCHANGED <<store, sess>>

\* ------------------------------------------------------------------------
\* Specification of the family routes, one request at a time
\* ------------------------------------------------------------------------
MemberIds == 1..MaxMemberId

\* the response of the request just handled leaves the server
Respond ==
  /\ ev # NoEvent
  /\ ev' = NoEvent
  /\ UNCHANGED <<store, sess, service>>

\* a request is taken up when the previous response has left; the rows its
\* createNotification calls insert are recorded in ev.notified, and the
\* service tables and the clock stay as they are
Ready == ev = NoEvent /\ UNCHANGED service

Next ==
  \/ \E u \in Actors, ok \in BOOLEAN : Ready /\ CreateParent(u, ok)
  \/ \E u \in Actors, p \in ParentIds, e \in Emails, ro \in Roles,
        po \in Opt(PermInputs) : Ready /\ Invite(u, p, e, ro, po)
  \/ \E u \in Actors, id \in MemberIds : Ready /\ Accept(u, id)
  \/ \E u \in Actors, id \in MemberIds : Ready /\ Decline(u, id)
  \/ \E u \in Actors, id \in MemberIds, ro \in Opt(Roles),
        po \in Opt(PermInputs) : Ready /\ UpdatePermissions(u, id, ro, po)
  \/ \E u \in Actors, id \in MemberIds : Ready /\ Remove(u, id)
  \/ \E u \in Actors, id \in MemberIds, ok1 \in BOOLEAN, ok2 \in BOOLEAN :
        Ready /\ TransferAdmin(u, id, ok1, ok2)
  \/ \E u \in Actors, p \in ParentIds, pm \in Permissions :
        Ready /\ GuardedRoute(u, p, pm)
  \/ Respond

Spec == Init /\ [][Next]_vars

\* ------------------------------------------------------------------------
\* Specification of the family routes with two requests in flight
\* ------------------------------------------------------------------------
\* family_members.status CHECK (status IN ('active', 'pending', 'inactive')):
\* no handler writes 'inactive'; a row gets it from a write made directly on
\* the store (soft delete)
Deactivate(id) ==
  /\ \E r \in family_members : r.id = id /\ r.status # "inactive"
  /\ family_members' =
       UpdateById(family_members, id,
                  [MemberById(family_members, id) EXCEPT !.status = "inactive"])
  /\ ev' = Event("deactivate", "write", NoUser, NoParent, NoUser, id, 0)
  /\ UNCHANGED <<parents, usedParents, nextId, resources, nextRid, sess>>

\* the invitations of this specification: as admin, no explicit permissions
ConcRoles == {"admin"}

NextConc ==
  \/ \E s \in Sessions, u \in Actors : Ready /\ CreateParentInsert(s, u)
  \/ \E s \in Sessions, ok \in BOOLEAN : Ready /\ CreateParentFamily(s, ok)
  \/ \E s \in Sessions, u \in Actors, p \in ParentIds, e \in Emails,
        ro \in ConcRoles : Ready /\ InviteCheck(s, u, p, e, ro, {})
  \/ \E s \in Sessions : Ready /\ InviteInsert(s)
  \/ \E s \in Sessions, u \in Actors, id \in MemberIds :
        Ready /\ AcceptCheck(s, u, id)
  \/ \E s \in Sessions : Ready /\ AcceptUpdate(s)
  \/ \E s \in Sessions, u \in Actors, id \in MemberIds :
        Ready /\ DeclineCheck(s, u, id)
  \/ \E s \in Sessions : Ready /\ DeclineDelete(s)
  \/ \E s \in Sessions, u \in Actors, id \in MemberIds :
        Ready /\ RemoveCheck(s, u, id)
  \/ \E s \in Sessions : Ready /\ RemoveDelete(s)
  \/ \E id \in MemberIds : Ready /\ Deactivate(id)
  \/ Respond

SpecConc == Init /\ [][NextConc]_vars

\* ------------------------------------------------------------------------
\* Resource routes: parents, medications, appointments, documents
\* ------------------------------------------------------------------------
MaxResId == 2

ResIds == 1..MaxResId

\* the values a request body gives the fields of a row
Vals == {"a", "b"}

NullRes == [id |-> 0, parent_id |-> NoParent, val |-> "none"]

\* .from(t).select('parent_id').eq('id', id).single()
ResourceById(rs, t, id) ==
  LET m == {x \in rs[t] : x.id = id}
  IN IF Cardinality(m) = 1 THEN CHOOSE x \in m : TRUE ELSE NullRes

\* !familyMember ||
\*   (!familyMember.permissions?.can_edit && familyMember.role !== 'admin')
Denied(familyMember, permission) ==
  \/ familyMember = NullRow
  \/ (~StoredFlag(familyMember, permission) /\ familyMember.role # "admin")

\* "Notifica outros membros": .eq('parent_id', p).neq('user_id', u)
\* .eq('status', 'active'), one notification row each
OtherMembers(fm, p, u) ==
  {r.user_id : r \in {x \in fm : /\ x.parent_id = p
                                /\ x.user_id # u
                                /\ x.status = "active"}}

\* the status the client gets: the first one sent
FirstSent(sent, later) == IF sent = 403 THEN 403 ELSE later

\* .insert({...body, created_by}) (parent_id REFERENCES parents(id)), then
\* the other members are notified; sent: the status sent before the insert
InsertResource(t, op, userId, p, sent) ==
  IF \E q \in parents : q.id = p
  THEN /\ nextRid <= MaxResId
       /\ resources' =
            [resources EXCEPT
               ![t] = @ \cup {[id |-> nextRid, parent_id |-> p, val |-> "a"]}]
       /\ nextRid' = nextRid + 1
       /\ ev' = EventN(op, "req", userId, p, NoUser, nextRid,
                       FirstSent(sent, 201), OtherMembers(family_members, p, userId))
  ELSE /\ UNCHANGED <<resources, nextRid>>
       /\ ev' = Event(op, "req", userId, p, NoUser, 0, FirstSent(sent, 500))

\* .update({...updates, updated_at}).eq('id', id).select().single()
UpdateResource(t, op, userId, row, val, sent) ==
  /\ resources' =
       [resources EXCEPT
          ![t] = {IF x.id = row.id THEN [x EXCEPT !.val = val] ELSE x : x \in @}]
  /\ nextRid' = nextRid
  /\ ev' = Event(op, "req", userId, row.parent_id, NoUser, row.id,
                 FirstSent(sent, 200))

\* .delete().eq('id', id)
DeleteResource(t, op, userId, row, sent) ==
  /\ resources' = [resources EXCEPT ![t] = {x \in @ : x.id # row.id}]
  /\ nextRid' = nextRid
  /\ ev' = Event(op, "req", userId, row.parent_id, NoUser, row.id,
                 FirstSent(sent, 200))

\* a response sent by a handler that then returns
Refuse(op, userId, p, id, code) ==
  /\ UNCHANGED <<resources, nextRid>>
  /\ ev' = Event(op, "req", userId, p, NoUser, id, code)

\* POST /api/medications
CreateMedication(userId, parent_id) ==
  /\ LET familyMember == MemberOf(family_members, parent_id, userId)
     IN IF Denied(familyMember, "edit")
        THEN Refuse("medications.post", userId, parent_id, 0, 403)
        ELSE InsertResource("medications", "medications.post", userId, parent_id, 201)
  /\ UNCHANGED <<parents, usedParents, family_members, nextId, sess>>

\* PUT /api/medications/:id
UpdateMedication(userId, id, val) ==
  /\ LET medication == ResourceById(resources, "medications", id)
         familyMember == MemberOf(family_members, medication.parent_id, userId)
     IN IF medication = NullRes
        THEN Refuse("medications.put", userId, NoParent, id, 404)
        ELSE IF Denied(familyMember, "edit")
        THEN Refuse("medications.put", userId, medication.parent_id, id, 403)
        ELSE UpdateResource("medications", "medications.put", userId, medication, val, 200)
  /\ UNCHANGED <<parents, usedParents, family_members, nextId, sess>>

\* DELETE /api/medications/:id; the 403 is sent and the handler goes on
DeleteMedication(userId, id) ==
  /\ LET medication == ResourceById(resources, "medications", id)
         familyMember == MemberOf(family_members, medication.parent_id, userId)
         sent == IF Denied(familyMember, "delete") THEN 403 ELSE 200
     IN IF medication = NullRes
        THEN Refuse("medications.delete", userId, NoParent, id, 404)
        ELSE DeleteResource("medications", "medications.delete", userId, medication, sent)
  /\ UNCHANGED <<parents, usedParents, family_members, nextId, sess>>

\* POST /api/appointments; the 403 is sent and the handler goes on
CreateAppointment(userId, parent_id) ==
  /\ LET familyMember == MemberOf(family_members, parent_id, userId)
         sent == IF Denied(familyMember, "edit") THEN 403 ELSE 201
     IN InsertResource("appointments", "appointments.post", userId, parent_id, sent)
  /\ UNCHANGED <<parents, usedParents, family_members, nextId, sess>>

\* PUT /api/appointments/:id; the 403 is sent and the handler goes on
UpdateAppointment(userId, id, val) ==
  /\ LET appointment == ResourceById(resources, "appointments", id)
         familyMember == MemberOf(family_members, appointment.parent_id, userId)
         sent == IF Denied(familyMember, "edit") THEN 403 ELSE 200
     IN IF appointment = NullRes
        THEN Refuse("appointments.put", userId, NoParent, id, 404)
        ELSE UpdateResource("appointments", "appointments.put", userId, appointment, val, sent)
  /\ UNCHANGED <<parents, usedParents, family_members, nextId, sess>>

\* DELETE /api/appointments/:id; the 403 is sent and the handler goes on
DeleteAppointment(userId, id) ==
  /\ LET appointment == ResourceById(resources, "appointments", id)
         familyMember == MemberOf(family_members, appointment.parent_id, userId)
         sent == IF Denied(familyMember, "delete") THEN 403 ELSE 200
     IN IF appointment = NullRes
        THEN Refuse("appointments.delete", userId, NoParent, id, 404)
        ELSE DeleteResource("appointments", "appointments.delete", userId, appointment, sent)
  /\ UNCHANGED <<parents, usedParents, family_members, nextId, sess>>

\* POST /api/documents
CreateDocument(userId, parent_id) ==
  /\ LET familyMember == MemberOf(family_members, parent_id, userId)
     IN IF Denied(familyMember, "edit")
        THEN Refuse("documents.post", userId, parent_id, 0, 403)
        ELSE InsertResource("documents", "documents.post", userId, parent_id, 201)
  /\ UNCHANGED <<parents, usedParents, family_members, nextId, sess>>

\* PUT /api/documents/:id
UpdateDocument(userId, id, val) ==
  /\ LET document == ResourceById(resources, "documents", id)
         familyMember == MemberOf(family_members, document.parent_id, userId)
     IN IF document = NullRes
        THEN Refuse("documents.put", userId, NoParent, id, 404)
        ELSE IF Denied(familyMember, "edit")
        THEN Refuse("documents.put", userId, document.parent_id, id, 403)
        ELSE UpdateResource("documents", "documents.put", userId, document, val, 200)
  /\ UNCHANGED <<parents, usedParents, family_members, nextId, sess>>

\* DELETE /api/documents/:id
DeleteDocument(userId, id) ==
  /\ LET document == ResourceById(resources, "documents", id)
         familyMember == MemberOf(family_members, document.parent_id, userId)
     IN IF document = NullRes
        THEN Refuse("documents.delete", userId, NoParent, id, 404)
        ELSE IF Denied(familyMember, "delete")
        THEN Refuse("documents.delete", userId, document.parent_id, id, 403)
        ELSE DeleteResource("documents", "documents.delete", userId, document, 200)
  /\ UNCHANGED <<parents, usedParents, family_members, nextId, sess>>

\* PUT /api/parents/:id; the membership is read with .eq('status', 'active');
\* the 403 is sent and the handler goes on
UpdateParent(userId, id, val) ==
  /\ LET familyMember == ActiveMemberOf(family_members, id, userId)
         sent == IF Denied(familyMember, "edit") THEN 403 ELSE 200
     IN IF \E q \in parents : q.id = id
        THEN /\ parents' =
                  {IF q.id = id THEN [q EXCEPT !.val = val] ELSE q : q \in parents}
             /\ ev' = Event("parents.put", "req", userId, id, NoUser, 0,
                            FirstSent(sent, 200))
        ELSE /\ parents' = parents
             /\ ev' = Event("parents.put", "req", userId, id, NoUser, 0,
                            FirstSent(sent, 500))
  /\ UNCHANGED <<usedParents, family_members, nextId, resources, nextRid, sess>>

\* DELETE /api/parents/:id ("apenas admin"): the membership is read by role;
\* the 403 is sent and the handler goes on; the delete cascades
DeleteParent(userId, id) ==
  /\ LET familyMember == MemberOf(family_members, id, userId)
         sent == IF familyMember = NullRow \/ familyMember.role # "admin"
                 THEN 403 ELSE 200
     IN /\ parents' = {q \in parents : q.id # id}
        /\ family_members' = CascadeMembers(family_members, id)
        /\ resources' = CascadeResources(resources, id)
        /\ ev' = Event("parents.delete", "req", userId, id, NoUser, 0, sent)
  /\ UNCHANGED <<usedParents, nextId, nextRid, sess>>

ResourceOps ==
  {"parents.put", "parents.delete"} \cup
  {"medications.post", "medications.put", "medications.delete"} \cup
  {"appointments.post", "appointments.put", "appointments.delete"} \cup
  {"documents.post", "documents.put", "documents.delete"}

\* the memberships of this specification get their flags from the role
NextRes ==
  \/ \E u \in Actors, ok \in BOOLEAN : Ready /\ CreateParent(u, ok)
  \/ \E u \in Actors, p \in ParentIds, e \in Emails, ro \in Roles :
        Ready /\ Invite(u, p, e, ro, {})
  \/ \E u \in Actors, id \in MemberIds : Ready /\ Accept(u, id)
  \/ \E u \in Actors, p \in ParentIds : Ready /\ CreateMedication(u, p)
  \/ \E u \in Actors, id \in ResIds, v \in Vals :
        Ready /\ UpdateMedication(u, id, v)
  \/ \E u \in Actors, id \in ResIds : Ready /\ DeleteMedication(u, id)
  \/ \E u \in Actors, p \in ParentIds : Ready /\ CreateAppointment(u, p)
  \/ \E u \in Actors, id \in ResIds, v \in Vals :
        Ready /\ UpdateAppointment(u, id, v)
  \/ \E u \in Actors, id \in ResIds : Ready /\ DeleteAppointment(u, id)
  \/ \E u \in Actors, p \in ParentIds : Ready /\ CreateDocument(u, p)
  \/ \E u \in Actors, id \in ResIds, v \in Vals :
        Ready /\ UpdateDocument(u, id, v)
  \/ \E u \in Actors, id \in ResIds : Ready /\ DeleteDocument(u, id)
  \/ \E u \in Actors, p \in ParentIds, v \in Vals : Ready /\ UpdateParent(u, p, v)
  \/ \E u \in Actors, p \in ParentIds : Ready /\ DeleteParent(u, p)
  \/ Respond

SpecRes == Init /\ [][NextRes]_vars

\* ------------------------------------------------------------------------
\* Notification service and scheduled jobs
\* ------------------------------------------------------------------------
MaxNotifId == 4

\* thirtyDaysAgo.setDate(thirtyDaysAgo.getDate() - 30)
RetentionDays == 30

\* minute - currentMinute === 5
ReminderLead == 5

\* the instants the clock is read at
Days == {0, 1, 31}
Clocks == {<<7, 55>>, <<8, 25>>, <<23, 57>>}
Instant(d, c) == [day |-> d, hour |-> c[1], minute |-> c[2]]
Instants == {Instant(d, c) : d \in Days, c \in Clocks}

\* minutes since 00:00 of day 0: the order of timestamps
Stamp(t) == (t.day * 24 + t.hour) * 60 + t.minute

\* push_subscriptions: "d1" and "d2" are two devices of u1, "d3" one of u2;
\* u3 has none
SubIds == {"d1", "d2", "d3"}
Subscriptions ==
  { [id |-> "d1", user_id |-> "u1", is_active |-> TRUE],
    [id |-> "d2", user_id |-> "u1", is_active |-> TRUE],
    [id |-> "d3", user_id |-> "u2", is_active |-> TRUE] }

\* webpush.sendNotification resolves, rejects, or rejects with statusCode 410
PushResults == {"sent", "failed", "gone"}
PushOutcomes == [SubIds -> PushResults]

\* a step of the service or of a job: n the users a row was inserted for,
\* push the deliveries attempted and what each reported
EventJ(op, phase, user, mid, n, push) ==
  [op |-> op, phase |-> phase, actor |-> NoUser, parent |-> NoParent,
   user |-> user, mid |-> mid, code |-> 0, notified |-> n, push |-> push]

\* .from('push_subscriptions').eq('user_id', userId).eq('is_active', true)
ActiveSubscriptions(subs, userId) ==
  {x \in subs : x.user_id = userId /\ x.is_active}

\* a delivery that reports any failure deactivates the subscription
sendPushNotification_anyFailure(subs, userId, out) ==
  {IF s \in ActiveSubscriptions(subs, userId) /\ out[s.id] # "sent"
   THEN [s EXCEPT !.is_active = FALSE] ELSE s : s \in subs}

\* one delivery per active subscription of the user; on statusCode 410
\* .update({is_active: false}).eq('id', sub.id)
sendPushNotification(subs, userId, out) ==
  {IF s \in ActiveSubscriptions(subs, userId) /\ out[s.id] = "gone"
   THEN [s EXCEPT !.is_active = FALSE] ELSE s : s \in subs}

\* the deliveries attempted for the users U and their results
Attempts(subs, U, out) ==
  {[id |-> s.id, result |-> out[s.id]] :
     s \in {x \in subs : x.user_id \in U /\ x.is_active}}

\* sendPushNotification once for every user of U
PushEach(subs, U, out) ==
  {IF s.user_id \in U
   THEN CHOOSE x \in sendPushNotification(subs, s.user_id, out) : x.id = s.id
   ELSE s : s \in subs}

\* a createNotification call to make: ref the medication or appointment,
\* slot the index of the time in medication.times, mid the member's row
Target(userId, type, ref, slot, mid) ==
  [user_id |-> userId, type |-> type, ref |-> ref, slot |-> slot,
   mid |-> mid]

\* the loops run over the rows in the order of their keys
Earlier(x, y) ==
  \/ x.ref < y.ref
  \/ x.ref = y.ref /\ x.slot < y.slot
  \/ x.ref = y.ref /\ x.slot = y.slot /\ x.mid < y.mid

Rank(x, T) == Cardinality({y \in T : Earlier(y, x)})

\* .from('notifications').insert({user_id, type, title, message, data,
\* is_read: false}); created_at DEFAULT NOW()
NotificationRow(id, x, at) ==
  [id |-> id, user_id |-> x.user_id, type |-> x.type, ref |-> x.ref,
   slot |-> x.slot, created_at |-> at, is_read |-> FALSE]

NewRows(T, first, at) ==
  {NotificationRow(first + Rank(x, T), x, at) : x \in T}

\* createNotification up to its insert: user_id REFERENCES profiles(id), an
\* insert error is caught and logged
CreateNotification(userId) ==
  /\ ev = NoEvent
  /\ IF userId \in Users
     THEN /\ nextNid <= MaxNotifId
          /\ notifications' = notifications \cup
               {NotificationRow(nextNid, Target(userId, "family", 0, 0, 0),
                                now)}
          /\ nextNid' = nextNid + 1
          /\ ev' = EventJ("createNotification", "insert", userId, nextNid,
                          {userId}, {})
     ELSE /\ UNCHANGED <<notifications, nextNid>>
          /\ ev' = EventJ("createNotification", "error", userId, 0, {}, {})
  /\ UNCHANGED <<push_subscriptions, now, store, sess>>

\* a push step that deletes the row again when a delivery failed
SendPush_rollback(out) ==
  /\ ev.op = "createNotification" /\ ev.phase = "insert"
  /\ push_subscriptions' =
       sendPushNotification(push_subscriptions, ev.user, out)
  /\ notifications' =
       IF \E a \in Attempts(push_subscriptions, {ev.user}, out) :
            a.result # "sent"
       THEN {n \in notifications : n.id # ev.mid}
       ELSE notifications
  /\ ev' = [ev EXCEPT !.phase = "push",
                      !.push = Attempts(push_subscriptions, {ev.user}, out)]
  /\ UNCHANGED <<nextNid, now, store, sess>>

\* createNotification after its insert: await this.sendPushNotification(...)
SendPush(out) ==
  /\ ev.op = "createNotification" /\ ev.phase = "insert"
  /\ push_subscriptions' =
       sendPushNotification(push_subscriptions, ev.user, out)
  /\ ev' = [ev EXCEPT !.phase = "push",
                      !.push = Attempts(push_subscriptions, {ev.user}, out)]
  /\ UNCHANGED <<notifications, nextNid, now, store, sess>>

\* hour === currentHour && minute - currentMinute === 5, with
\* [hour, minute] = time.split(':').map(Number)
ReminderDue(time, t) ==
  time[1] = t.hour /\ time[2] - t.minute = ReminderLead

Slots == 1..3

\* medications .eq('is_active', true); per due time of med.times the rows of
\* family_members .eq('parent_id', med.parent_id)
MedicationTargets(fm, meds, t) ==
  UNION { { Target(m.user_id, "medication", d[1].id, d[2], m.id) :
              m \in {x \in fm : x.parent_id = d[1].parent_id} } :
          d \in {e \in {x \in meds : x.is_active} \X Slots :
                   /\ e[2] \in DOMAIN e[1].times
                   /\ ReminderDue(e[1].times[e[2]], t)} }

\* one run of a reminder scan: a row and the pushes for every target
Remind(op, T, out) ==
  LET U == {x.user_id : x \in T}
  IN /\ nextNid + Cardinality(T) - 1 <= MaxNotifId
     /\ notifications' = notifications \cup NewRows(T, nextNid, now)
     /\ nextNid' = nextNid + Cardinality(T)
     /\ push_subscriptions' = PushEach(push_subscriptions, U, out)
     /\ ev' = EventJ(op, "job", NoUser, 0, U,
                     Attempts(push_subscriptions, U, out))
     /\ UNCHANGED <<now, store, sess>>

sendMedicationReminders(out) ==
  /\ ev = NoEvent
  /\ Remind("sendMedicationReminders",
            MedicationTargets(family_members, resources["medications"], now),
            out)

\* appointments of tomorrow's date with status 'scheduled'; per appointment
\* the rows of family_members .eq('parent_id', apt.parent_id)
AppointmentTargets(fm, apts, t) ==
  UNION { { Target(m.user_id, "appointment", apt.id, 0, m.id) :
              m \in {x \in fm : x.parent_id = apt.parent_id} } :
          apt \in {x \in apts : /\ x.scheduled_at.day = t.day + 1
                                /\ x.status = "scheduled"} }

sendAppointmentReminders(out) ==
  /\ ev = NoEvent
  /\ Remind("sendAppointmentReminders",
            AppointmentTargets(family_members, resources["appointments"],
                               now),
            out)

\* a sweep that deletes the rows of 30 days and older that were read
cleanOldNotifications_readOnly ==
  /\ ev = NoEvent
  /\ notifications' =
       {n \in notifications :
          ~ (/\ Stamp(n.created_at) <=
                  Stamp(now) - RetentionDays * 24 * 60
             /\ n.is_read)}
  /\ ev' = EventJ("cleanOldNotifications", "job", NoUser, 0, {}, {})
  /\ UNCHANGED <<nextNid, push_subscriptions, now, store, sess>>

\* .delete().lt('created_at', thirtyDaysAgo.toISOString())
cleanOldNotifications ==
  /\ ev = NoEvent
  /\ notifications' =
       {n \in notifications :
          ~ (Stamp(n.created_at) < Stamp(now) - RetentionDays * 24 * 60)}
  /\ ev' = EventJ("cleanOldNotifications", "job", NoUser, 0, {}, {})
  /\ UNCHANGED <<nextNid, push_subscriptions, now, store, sess>>

\* a sweep that marks every past appointment, whatever its status
updateAppointmentStatuses_anyStatus ==
  /\ ev = NoEvent
  /\ resources' =
       [resources EXCEPT
          !["appointments"] =
             {IF Stamp(a.scheduled_at) < Stamp(now)
              THEN [a EXCEPT !.status = "missed"] ELSE a : a \in @}]
  /\ ev' = EventJ("updateAppointmentStatuses", "job", NoUser, 0, {}, {})
  /\ UNCHANGED <<parents, usedParents, family_members, nextId, nextRid,
                 sess, service>>

\* .update({status: 'missed'}).lt('scheduled_at', now).eq('status',
\* 'scheduled')
updateAppointmentStatuses ==
  /\ ev = NoEvent
  /\ resources' =
       [resources EXCEPT
          !["appointments"] =
             {IF a.status = "scheduled" /\ Stamp(a.scheduled_at) < Stamp(now)
              THEN [a EXCEPT !.status = "missed"] ELSE a : a \in @}]
  /\ ev' = EventJ("updateAppointmentStatuses", "job", NoUser, 0, {}, {})
  /\ UNCHANGED <<parents, usedParents, family_members, nextId, nextRid,
                 sess, service>>

\* .update({is_read: true, read_at}).eq('id', notificationId)
markAsRead(notificationId) ==
  /\ ev = NoEvent
  /\ \E n \in notifications : n.id = notificationId /\ ~ n.is_read
  /\ notifications' =
       {IF n.id = notificationId THEN [n EXCEPT !.is_read = TRUE] ELSE n :
          n \in notifications}
  /\ ev' = EventJ("markAsRead", "job", NoUser, notificationId, {}, {})
  /\ UNCHANGED <<nextNid, push_subscriptions, now, store, sess>>

\* time passes
Advance(t) ==
  /\ ev = NoEvent
  /\ Stamp(now) < Stamp(t)
  /\ now' = t
  /\ UNCHANGED <<notifications, nextNid, push_subscriptions, store, sess,
                 ev>>

\* a second member of the recipient, in any status of the CHECK constraint
SecondMember(st) ==
  [id |-> 2, parent_id |-> "p1", user_id |-> "u2", role |-> "editor",
   permissions |-> EditorPerms, status |-> st, invited_by |-> "u1",
   accepted_at |-> (st # "pending")]

JobFamilies ==
  {{CreatorRow(1, "p1", "u1")}} \cup
  {{CreatorRow(1, "p1", "u1"), SecondMember(st)} : st \in Statuses}

\* medications: times is a list of 'HH:MM', is_active DEFAULT true
JobMedications ==
  { [id |-> 1, parent_id |-> "p1", val |-> "a", is_active |-> TRUE,
     times |-> <<<<8, 0>>, <<0, 2>>, <<8, 30>>>>],
    [id |-> 2, parent_id |-> "p1", val |-> "a", is_active |-> FALSE,
     times |-> <<<<8, 30>>>>] }

\* appointments.status CHECK (status IN ('scheduled', 'completed',
\* 'cancelled', 'missed'))
AppointmentStatuses == {"scheduled", "completed", "cancelled", "missed"}

Appointment(id, st, at) ==
  [id |-> id, parent_id |-> "p1", val |-> "a", status |-> st,
   scheduled_at |-> at]

JobAppointments ==
  { {Appointment(1, "scheduled", Instant(1, <<8, 25>>)),
     Appointment(2, "completed", Instant(1, <<8, 25>>))},
    {Appointment(1, "scheduled", Instant(1, <<8, 25>>)),
     Appointment(2, "scheduled", Instant(32, <<8, 25>>))} }

InitJobs ==
  /\ parents = {ParentRow("p1")}
  /\ usedParents = {"p1"}
  /\ family_members \in JobFamilies
  /\ nextId = 3
  /\ resources \in
       {[t \in Tables |->
           IF t = "medications" THEN JobMedications
           ELSE IF t = "appointments" THEN a ELSE {}] :
        a \in JobAppointments}
  /\ nextRid = 3
  /\ sess = [s \in Sessions |-> Idle]
  /\ ev = NoEvent
  /\ notifications = {}
  /\ nextNid = 1
  /\ push_subscriptions = {x \in Subscriptions : x.id = "d3"}
  /\ now = Instant(0, <<7, 55>>)

\* the rows a reader opens
ReadIds == {1}

NextJobs ==
  \/ \E out \in PushOutcomes : sendMedicationReminders(out)
  \/ \E out \in PushOutcomes : sendAppointmentReminders(out)
  \/ cleanOldNotifications
  \/ updateAppointmentStatuses
  \/ \E id \in ReadIds : markAsRead(id)
  \/ \E t \in Instants : Advance(t)
  \/ Respond

SpecJobs == InitJobs /\ [][NextJobs]_vars

\* ------------------------------------------------------------------------
\* Specification of createNotification alone, as the routes call it
\* ------------------------------------------------------------------------
InitPush ==
  /\ parents = {}
  /\ usedParents = {}
  /\ family_members = {}
  /\ nextId = 1
  /\ resources = [t \in Tables |-> {}]
  /\ nextRid = 1
  /\ sess = [s \in Sessions |-> Idle]
  /\ ev = NoEvent
  /\ notifications = {}
  /\ nextNid = 1
  /\ push_subscriptions = Subscriptions
  /\ now = Instant(0, <<7, 55>>)

NextPush ==
  \/ \E u \in Users \cup {NoUser} : CreateNotification(u)
  \/ \E out \in PushOutcomes : SendPush(out)
  \/ ev.phase # "insert" /\ Respond

SpecPush == InitPush /\ [][NextPush]_vars

\* ------------------------------------------------------------------------
\* PATCH /api/appointments/:id/status and POST /api/medications/:id/confirm
\* ------------------------------------------------------------------------
\* !familyMember?.permissions?.can_edit: the stored flag alone
FlagDenied(familyMember, permission) ==
  familyMember = NullRow \/ ~StoredFlag(familyMember, permission)

\* req.body.status of the requests of the model
StatusInputs == {"completed", "scheduled"}

\* confirmMedicationSchema.status
LogStatuses == {"taken", "missed", "skipped"}

\* .from('appointments').update({status, outcome, updated_at}).eq('id', id)
\* then, for 'completed' and 'cancelled', the other active members are
\* notified
WriteAppointmentStatus(userId, appointment, status) ==
  /\ resources' =
       [resources EXCEPT
          !["appointments"] =
             {IF a.id = appointment.id THEN [a EXCEPT !.status = status]
              ELSE a : a \in @}]
  /\ nextRid' = nextRid
  /\ ev' = EventN("appointments.status", "req", userId,
                  appointment.parent_id, NoUser, appointment.id, 200,
                  IF status \in {"completed", "cancelled"}
                  THEN OtherMembers(family_members, appointment.parent_id,
                                    userId)
                  ELSE {})

\* PATCH /api/appointments/:id/status
UpdateAppointmentStatus(userId, id, status) ==
  /\ LET found == {a \in resources["appointments"] : a.id = id}
     IN IF found = {}
        THEN Refuse("appointments.status", userId, NoParent, id, 404)
        ELSE LET appointment == CHOOSE a \in found : TRUE
                 familyMember == MemberOf(family_members,
                                          appointment.parent_id, userId)
             IN IF FlagDenied(familyMember, "edit")
                THEN Refuse("appointments.status", userId,
                            appointment.parent_id, id, 403)
                ELSE WriteAppointmentStatus(userId, appointment, status)
  /\ UNCHANGED <<parents, usedParents, family_members, nextId, sess>>

\* .from('medication_logs').insert({medication_id, parent_id, taken_at,
\* status, notes, confirmed_by}); created_at DEFAULT NOW()
LogRow(id, medication, status, userId, at) ==
  [id |-> id, parent_id |-> medication.parent_id, val |-> "a",
   medication_id |-> medication.id, status |-> status,
   confirmed_by |-> userId, created_at |-> at]

\* POST /api/medications/:id/confirm; the 403 is sent and the handler goes on
ConfirmMedication(userId, id, status) ==
  /\ LET found == {m \in resources["medications"] : m.id = id}
     IN IF found = {}
        THEN Refuse("medications.confirm", userId, NoParent, id, 404)
        ELSE LET medication == CHOOSE m \in found : TRUE
                 familyMember == MemberOf(family_members,
                                          medication.parent_id, userId)
                 sent == IF FlagDenied(familyMember, "view") THEN 403
                         ELSE 201
             IN /\ nextRid <= MaxResId
                /\ resources' =
                     [resources EXCEPT
                        !["medication_logs"] =
                           @ \cup {LogRow(nextRid, medication, status,
                                          userId, now)}]
                /\ nextRid' = nextRid + 1
                /\ ev' = Event("medications.confirm", "req", userId,
                               medication.parent_id, NoUser, nextRid,
                               FirstSent(sent, 201))
  /\ UNCHANGED <<parents, usedParents, family_members, nextId, sess>>

\* the creator's flags after another admin has updated them
SweepFamilies ==
  {{[CreatorRow(1, "p1", "u1") EXCEPT !.permissions = f], SecondMember(st)} :
     f \in {AllTrue, NoneTrue}, st \in Statuses}

InitSweep ==
  /\ parents = {ParentRow("p1")}
  /\ usedParents = {"p1"}
  /\ family_members \in SweepFamilies
  /\ nextId = 3
  /\ resources \in
       {[t \in Tables |->
           IF t = "medications" THEN JobMedications
           ELSE IF t = "appointments" THEN a ELSE {}] :
        a \in JobAppointments}
  /\ nextRid = 1
  /\ sess = [s \in Sessions |-> Idle]
  /\ ev = NoEvent
  /\ notifications = {}
  /\ nextNid = 1
  /\ push_subscriptions = {}
  /\ now = Instant(0, <<7, 55>>)

NextSweep ==
  \/ \E u \in Actors, id \in ResIds, st \in StatusInputs :
        Ready /\ UpdateAppointmentStatus(u, id, st)
  \/ updateAppointmentStatuses
  \/ \E t \in Instants : Advance(t)
  \/ Respond

SpecSweep == InitSweep /\ [][NextSweep]_vars

\* ------------------------------------------------------------------------
\* Weekly report job and the run from a new recipient to its first report
\* ------------------------------------------------------------------------
\* weekAgo.setDate(weekAgo.getDate() - 7)
ReportDays == 7

\* medication_logs .eq('parent_id', admin.parent_id).gte('created_at',
\* weekAgo.toISOString())
WeekLogs(logs, p, t) ==
  {l \in logs : /\ l.parent_id = p
                /\ Stamp(l.created_at) >= Stamp(t) - ReportDays * 24 * 60}

\* an adherence that counts every log as taken
Adherence_anyStatus(total, taken) == IF total > 0 THEN 100 ELSE 0

\* total > 0 ? Math.round((taken / total) * 100) : 0
Adherence(total, taken) ==
  IF total > 0 THEN (200 * taken + total) \div (2 * total) ELSE 0

\* the row of a weekly report: data {parent_id, period, adherence, total,
\* taken}
ReportRow(id, admin, logs, at) ==
  LET week == WeekLogs(logs, admin.parent_id, at)
      total == Cardinality(week)
      taken == Cardinality({l \in week : l.status = "taken"})
  IN [id |-> id, user_id |-> admin.user_id, type |-> "medication",
      ref |-> 0, slot |-> 0, created_at |-> at, is_read |-> FALSE,
      data |-> [parent_id |-> admin.parent_id,
                adherence |-> Adherence(total, taken),
                total |-> total, taken |-> taken]]

\* cron '0 20 * * 0': family_members .eq('role', 'admin'), one
\* createNotification per row
weeklyReport(out) ==
  /\ ev = NoEvent
  /\ LET admins == {m \in family_members : m.role = "admin"}
         U == {m.user_id : m \in admins}
     IN /\ nextNid + Cardinality(admins) - 1 <= MaxNotifId
        /\ notifications' = notifications \cup
             {ReportRow(nextNid + Cardinality({x \in admins : x.id < m.id}),
                        m, resources["medication_logs"], now) :
                m \in admins}
        /\ nextNid' = nextNid + Cardinality(admins)
        /\ push_subscriptions' = PushEach(push_subscriptions, U, out)
        /\ ev' = EventJ("weeklyReport", "job", NoUser, 0, U,
                        Attempts(push_subscriptions, U, out))
  /\ UNCHANGED <<now, store, sess>>

InitCare ==
  /\ parents = {}
  /\ usedParents = {}
  /\ family_members = {}
  /\ nextId = 1
  /\ resources = [t \in Tables |-> {}]
  /\ nextRid = 1
  /\ sess = [s \in Sessions |-> Idle]
  /\ ev = NoEvent
  /\ notifications = {}
  /\ nextNid = 1
  /\ push_subscriptions = {}
  /\ now = Instant(0, <<7, 55>>)

NextCare ==
  \/ \E u \in Actors, ok \in BOOLEAN : Ready /\ CreateParent(u, ok)
  \/ \E u \in Actors, p \in ParentIds, e \in Emails, ro \in Roles :
        Ready /\ Invite(u, p, e, ro, {})
  \/ \E u \in Actors, id \in MemberIds : Ready /\ Accept(u, id)
  \/ \E u \in Actors, p \in ParentIds : Ready /\ CreateMedication(u, p)
  \/ \E u \in Actors, id \in ResIds, st \in LogStatuses :
        Ready /\ ConfirmMedication(u, id, st)
  \/ \E out \in PushOutcomes : weeklyReport(out)
  \/ Respond

SpecCare == InitCare /\ [][NextCare]_vars

\* ------------------------------------------------------------------------
\* The medication reminder scan on its default cadence
\* ------------------------------------------------------------------------
\* MEDICATION_REMINDER_CRON default '*/5 * * * *'
ScanEvery == 5

\* the days the scan is followed over
ScanDays == 2

\* the instant of the cron tick that follows the tick at t
AfterScan(t) ==
  IF t.minute + ScanEvery < 60 THEN [t EXCEPT !.minute = @ + ScanEvery]
  ELSE IF t.hour < 23
       THEN [t EXCEPT !.hour = @ + 1, !.minute = (@ + ScanEvery) % 60]
       ELSE [day |-> t.day + 1, hour |-> 0,
             minute |-> (t.minute + ScanEvery) % 60]

\* scheduled times on the cadence, off it, and in the first minutes of an
\* hour
CadenceTimes == {<<8, 0>>, <<8, 30>>, <<8, 32>>, <<23, 55>>}

CadenceMedications ==
  {[id |-> 1, parent_id |-> "p1", val |-> "a", is_active |-> a,
    times |-> <<c>>] : a \in BOOLEAN, c \in CadenceTimes}

InitCadence ==
  /\ parents = {ParentRow("p1")}
  /\ usedParents = {"p1"}
  /\ family_members = {CreatorRow(1, "p1", "u1")}
  /\ nextId = 2
  /\ resources \in
       {[t \in Tables |-> IF t = "medications" THEN {m} ELSE {}] :
        m \in CadenceMedications}
  /\ nextRid = 2
  /\ sess = [s \in Sessions |-> Idle]
  /\ ev = NoEvent
  /\ notifications = {}
  /\ nextNid = 1
  /\ push_subscriptions = {}
  /\ now = Instant(0, <<0, 0>>)

\* the callback has returned; the clock runs to the next tick of the cron
\* expression
NextScan ==
  /\ ev.op = "sendMedicationReminders"
  /\ AfterScan(now).day <= ScanDays
  /\ now' = AfterScan(now)
  /\ ev' = NoEvent
  /\ UNCHANGED <<notifications, nextNid, push_subscriptions, store, sess>>

NextCadence ==
  \/ \E out \in PushOutcomes : sendMedicationReminders(out)
  \/ NextScan

SpecCadence == InitCadence /\ [][NextCadence]_vars

\* ------------------------------------------------------------------------
\* sendPushNotification, one delivery at a time
\* ------------------------------------------------------------------------
\* the subscriptions query: its rows wait in ev.push for their delivery; on
\* error, or with no row, the call returns
LoadSubscriptions(userId, ok) ==
  /\ ev = NoEvent
  /\ LET rows == IF ok THEN ActiveSubscriptions(push_subscriptions, userId)
                 ELSE {}
     IN ev' = EventJ("sendPushNotification",
                     IF rows = {} THEN "settled" ELSE "deliver", userId, 0,
                     {}, {[id |-> x.id, result |-> "pending"] : x \in rows})
  /\ UNCHANGED <<service, store, sess>>

\* a delivery whose failure abandons the deliveries still waiting
Deliver_firstFailureStops(id, result, written) ==
  /\ ev.op = "sendPushNotification" /\ ev.phase = "deliver"
  /\ [id |-> id, result |-> "pending"] \in ev.push
  /\ push_subscriptions' =
       {IF x.id = id /\ result = "gone" /\ written
        THEN [x EXCEPT !.is_active = FALSE] ELSE x : x \in push_subscriptions}
  /\ ev' = [ev EXCEPT
              !.push = IF result = "sent"
                       THEN (@ \ {[id |-> id, result |-> "pending"]})
                              \cup {[id |-> id, result |-> result]}
                       ELSE {a \in @ : a.result # "pending"}
                              \cup {[id |-> id, result |-> result]}]
  /\ UNCHANGED <<notifications, nextNid, now, store, sess>>

\* the callback of subscriptions.map for one row: webpush.sendNotification
\* resolves or rejects; on statusCode 410 the update of is_active, which
\* may itself fail (written = FALSE)
Deliver(id, result, written) ==
  /\ ev.op = "sendPushNotification" /\ ev.phase = "deliver"
  /\ [id |-> id, result |-> "pending"] \in ev.push
  /\ push_subscriptions' =
       {IF x.id = id /\ result = "gone" /\ written
        THEN [x EXCEPT !.is_active = FALSE] ELSE x : x \in push_subscriptions}
  /\ ev' = [ev EXCEPT
              !.push = (@ \ {[id |-> id, result |-> "pending"]})
                         \cup {[id |-> id, result |-> result]}]
  /\ UNCHANGED <<notifications, nextNid, now, store, sess>>

\* await Promise.allSettled(promises)
Settle ==
  /\ ev.op = "sendPushNotification" /\ ev.phase = "deliver"
  /\ \A a \in ev.push : a.result # "pending"
  /\ ev' = [ev EXCEPT !.phase = "settled"]
  /\ UNCHANGED <<service, store, sess>>

NextDeliver ==
  \/ \E u \in Users, ok \in BOOLEAN : LoadSubscriptions(u, ok)
  \/ \E id \in SubIds, r \in PushResults, w \in BOOLEAN : Deliver(id, r, w)
  \/ Settle
  \/ ev.phase # "deliver" /\ Respond

SpecDeliver == InitPush /\ [][NextDeliver]_vars

\* ------------------------------------------------------------------------
\* The createNotification calls a handler makes after its write
\* ------------------------------------------------------------------------
\* a createNotification that lets an insert error or a failed delivery out
CreateNotificationOutcome_rethrow(inserted, delivered) ==
  IF inserted /\ delivered THEN "returned" ELSE "thrown"

\* try { insert; if (error) throw error; await sendPushNotification }
\* catch (error) { console.error }: the call returns either way
CreateNotificationOutcome(inserted, delivered) == "returned"

\* the notification rows followed after the handlers
MaxNotified == 1

\* the type argument of the handler's call
NotifyType(op) ==
  IF op = "medications.post" THEN "medication"
  ELSE IF op \in {"appointments.post", "appointments.status"}
       THEN "appointment"
       ELSE "family"

\* the order the handler's loop reaches the users in
UserNo(u) == IF u = "u1" THEN 1 ELSE IF u = "u2" THEN 2 ELSE 3

\* the handler after its write: one createNotification per user of
\* ev.notified, whose insert succeeds for the users of persisted only; a
\* call that threw would end in the handler's catch with a 500
Notify(persisted, out) ==
  /\ ev.phase = "req" /\ ev.notified # {}
  /\ persisted \subseteq ev.notified
  /\ LET T == {Target(u, NotifyType(ev.op), 0, 0, UserNo(u)) :
                 u \in persisted}
         tried == Attempts(push_subscriptions, persisted, out)
         thrown == \E u \in ev.notified :
                     CreateNotificationOutcome(
                       u \in persisted,
                       \A a \in Attempts(push_subscriptions, {u}, out) :
                         a.result = "sent") = "thrown"
     IN /\ nextNid + Cardinality(T) - 1 <= MaxNotified
        /\ notifications' = notifications \cup NewRows(T, nextNid, now)
        /\ nextNid' = nextNid + Cardinality(T)
        /\ push_subscriptions' = PushEach(push_subscriptions, persisted, out)
        /\ ev' = [ev EXCEPT !.phase = "notified",
                            !.code = IF thrown THEN 500 ELSE @,
                            !.push = tried]
  /\ UNCHANGED <<now, store, sess>>

InitNotify ==
  /\ parents = {ParentRow("p1")}
  /\ usedParents = {"p1"}
  /\ family_members \in
       {{CreatorRow(1, "p1", "u1"), SecondMember(st)} : st \in Statuses}
  /\ nextId = 3
  /\ resources = [t \in Tables |-> {}]
  /\ nextRid = 1
  /\ sess = [s \in Sessions |-> Idle]
  /\ ev = NoEvent
  /\ notifications = {}
  /\ nextNid = 1
  /\ push_subscriptions = {x \in Subscriptions : x.id = "d3"}
  /\ now = Instant(0, <<7, 55>>)

NextNotify ==
  \/ \E u \in Actors, p \in ParentIds : Ready /\ CreateMedication(u, p)
  \/ \E u \in Actors, p \in ParentIds : Ready /\ CreateAppointment(u, p)
  \/ \E u \in Actors, id \in MemberIds : Ready /\ Accept(u, id)
  \/ \E u \in Actors, id \in MemberIds : Ready /\ Remove(u, id)
  \/ \E u \in Actors, id \in MemberIds, ok1 \in BOOLEAN, ok2 \in BOOLEAN :
        Ready /\ TransferAdmin(u, id, ok1, ok2)
  \/ \E persisted \in SUBSET ev.notified, out \in PushOutcomes :
        Notify(persisted, out)
  \/ (ev.phase # "req" \/ ev.notified = {}) /\ Respond

SpecNotify == InitNotify /\ [][NextNotify]_vars

\* ------------------------------------------------------------------------
\* startCronJobs: the seven callbacks and their try/catch
\* ------------------------------------------------------------------------
\* the jobs in the order cron.schedule registers them
CronJobs ==
  <<"medicationReminders", "appointmentReminders", "cleanOldNotifications",
    "expiredMedications", "appointmentStatuses", "backup", "weeklyReport">>

\* the cron expression of each job, on a clock whose day 0 is a Sunday:
\* '*/5 * * * *', '0 8 * * *', '0 3 * * *', '0 0 * * *', '30 0 * * *',
\* '0 2 * * 1', '0 20 * * 0'
Due(i, t) ==
  CASE i = 1 -> t.minute % ScanEvery = 0
    [] i = 2 -> t.hour = 8 /\ t.minute = 0
    [] i = 3 -> t.hour = 3 /\ t.minute = 0
    [] i = 4 -> t.hour = 0 /\ t.minute = 0
    [] i = 5 -> t.hour = 0 /\ t.minute = 30
    [] i = 6 -> t.day % 7 = 1 /\ t.hour = 2 /\ t.minute = 0
    [] i = 7 -> t.day % 7 = 0 /\ t.hour = 20 /\ t.minute = 0

\* the jobs of the tick at t that have not run yet, i the last one that ran
Waiting(i, t) == {k \in DOMAIN CronJobs : k > i /\ Due(k, t)}

\* a step of a cron callback: mid the job's place in CronJobs, logged the
\* jobs whose failure logger.error has written during the tick
CronEvent(op, phase, i, logged) ==
  [op |-> op, phase |-> phase, actor |-> NoUser, parent |-> NoParent,
   user |-> NoUser, mid |-> i, code |-> 0, notified |-> {}, push |-> {},
   logged |-> logged]

\* a callback without try/catch: the rejection ends the process
CallbackEnd_unguarded(thrown) == IF thrown THEN "crashed" ELSE "done"

\* try { body } catch (error) { logger.error(...) }
CallbackEnd(thrown) == IF thrown THEN "caught" ELSE "done"

\* the next callback of the tick is called: logger.info('Running ...')
StartJob ==
  /\ ev.phase \in {"idle", "done", "caught"}
  /\ Waiting(ev.mid, now) # {}
  /\ LET i == CHOOSE k \in Waiting(ev.mid, now) :
                \A j \in Waiting(ev.mid, now) : k <= j
     IN ev' = CronEvent(CronJobs[i], "start", i, ev.logged)
  /\ UNCHANGED <<service, store, sess>>

\* the body runs over the empty tables and returns, or throws
EndJob(thrown) ==
  /\ ev.phase = "start"
  /\ ev' = [ev EXCEPT !.phase = CallbackEnd(thrown),
                      !.logged = IF CallbackEnd(thrown) = "caught"
                                 THEN @ \cup {ev.op} ELSE @]
  /\ UNCHANGED <<service, store, sess>>

\* the callbacks of the tick have returned; the clock runs to the next tick,
\* week after week
CronClock ==
  /\ ev.phase \in {"done", "caught"}
  /\ Waiting(ev.mid, now) = {}
  /\ now' = [AfterScan(now) EXCEPT !.day = @ % 7]
  /\ ev' = CronEvent("none", "idle", 0, {})
  /\ UNCHANGED <<notifications, nextNid, push_subscriptions, store, sess>>

InitCron ==
  /\ parents = {}
  /\ usedParents = {}
  /\ family_members = {}
  /\ nextId = 1
  /\ resources = [t \in Tables |-> {}]
  /\ nextRid = 1
  /\ sess = [s \in Sessions |-> Idle]
  /\ ev = CronEvent("none", "idle", 0, {})
  /\ notifications = {}
  /\ nextNid = 1
  /\ push_subscriptions = {}
  /\ now = Instant(0, <<0, 0>>)

NextCron ==
  \/ StartJob
  \/ \E thrown \in BOOLEAN : EndJob(thrown)
  \/ CronClock

SpecCron == InitCron /\ [][NextCron]_vars

\* node-cron calls every callback whose tick has come for as long as the
\* process runs
SpecCronLive == SpecCron /\ WF_vars(NextCron)

\* ------------------------------------------------------------------------
\* Properties
\* ------------------------------------------------------------------------
\* C1: every care-recipient with at least one active membership has at least
\* one membership with role admin and status active.
C1_ActiveAdminExists ==
  \A p \in ParentIds :
    LET active == {r \in family_members :
                     r.parent_id = p /\ r.status = "active"}
    IN active # {} => \E r \in active : r.role = "admin"

\* C2: a create, update or delete on a parent, medication, appointment or
\* document that is answered 403 changes no row of the store.
C2_DeniedLeavesStore ==
  [][(ev'.op \in ResourceOps /\ ev'.code = 403)
       => UNCHANGED <<parents, family_members, resources>>]_vars

\* C3: a create, update or delete on a parent or on its medications,
\* appointments and documents by a user with no active membership on that
\* parent (none, pending or inactive) is answered 403.
C3_NonActiveDenied ==
  [][(/\ ev'.op \in ResourceOps
      /\ ev'.parent \in ParentIds
      /\ ~ \E r \in family_members : /\ r.parent_id = ev'.parent
                                     /\ r.user_id = ev'.actor
                                     /\ r.status = "active")
       => ev'.code = 403]_vars

\* C4: an invite, a permission update, an admin transfer or the removal of
\* another user's membership by an actor who holds no membership with role
\* admin and status active on that parent is rejected and leaves the
\* memberships as they were.
C4_OnlyActiveAdmin ==
  [][(/\ \/ ev'.op \in {"invite", "updatePermissions", "transfer"}
         \/ (ev'.op = "remove" /\ ev'.user # ev'.actor)
      /\ ev'.parent \in ParentIds
      /\ ~ \E r \in family_members : /\ r.parent_id = ev'.parent
                                     /\ r.user_id = ev'.actor
                                     /\ r.role = "admin"
                                     /\ r.status = "active")
       => (ev'.code \notin {200, 201} /\ family_members' = family_members)]_vars

\* C5: after a transfer-admin request by active admin A onto an active
\* member B who is not A and not yet admin, whatever its outcome, exactly one
\* of A and B is admin.
C5_TransferAtomic ==
  [][(/\ ev'.op = "transfer"
      /\ ev'.user # ev'.actor
      /\ \E a, b \in family_members :
           /\ a.parent_id = ev'.parent /\ a.user_id = ev'.actor
           /\ a.role = "admin" /\ a.status = "active"
           /\ b.id = ev'.mid /\ b.status = "active" /\ b.role # "admin")
       => \E a, b \in family_members' :
            /\ a.parent_id = ev'.parent /\ a.user_id = ev'.actor
            /\ b.id = ev'.mid
            /\ (a.role = "admin") # (b.role = "admin")]_vars

\* C6 as stated: the removal of a membership with role admin from a parent
\* with exactly one active admin is answered LastAdminProtected (400) whoever
\* asks, and the memberships stay as they were.
C6_LastAdminAnyRequester ==
  [][(/\ ev'.op = "remove"
      /\ \E t \in family_members :
           /\ t.id = ev'.mid /\ t.role = "admin"
           /\ Cardinality({r \in family_members :
                             /\ r.parent_id = t.parent_id
                             /\ r.role = "admin"
                             /\ r.status = "active"}) = 1)
       => (ev'.code = 400 /\ family_members' = family_members)]_vars

\* C6 amended: with exactly one active admin on the parent, the removal of a
\* membership with role admin leaves the memberships as they were; it is
\* answered 400 when the requester is the target or holds a membership with
\* role admin on the parent, and 403 otherwise. With two active admins, the
\* removal of one of them by the target or by an active admin is answered 200
\* and deletes that membership and no other.
C6_LastAdminProtected ==
  [][ev'.op = "remove" =>
       \A t \in family_members :
         (t.id = ev'.mid /\ t.role = "admin") =>
           LET admins == {r \in family_members : /\ r.parent_id = t.parent_id
                                                  /\ r.role = "admin"
                                                  /\ r.status = "active"}
               holdsAdmin == \E r \in family_members :
                               /\ r.parent_id = t.parent_id
                               /\ r.user_id = ev'.actor
                               /\ r.role = "admin"
               authorised == t.user_id = ev'.actor
                               \/ \E r \in admins : r.user_id = ev'.actor
           IN /\ Cardinality(admins) = 1 =>
                   /\ family_members' = family_members
                   /\ ev'.code = IF t.user_id = ev'.actor \/ holdsAdmin
                                 THEN 400 ELSE 403
              /\ (Cardinality(admins) = 2 /\ t \in admins /\ authorised) =>
                   /\ family_members' = family_members \ {t}
                   /\ ev'.code = 200]_vars

\* the last admin asked for the removal of their own membership, was answered
\* 400 and is still the only active admin
C6_Witness ==
  /\ ev.op = "remove" /\ ev.code = 400 /\ ev.actor = ev.user
  /\ \E t \in family_members :
       /\ t.id = ev.mid /\ t.user_id = ev.actor
       /\ t.role = "admin" /\ t.status = "active"
       /\ \A r \in family_members :
            (r.role = "admin" /\ r.status = "active") => r = t

\* C7: checkFamilyPermission lets an active admin through for view, edit and
\* delete whatever the stored flags are; for an active member with another
\* role it decides exactly as the stored flag of the action says.
C7_AdminOverride ==
  ev.phase = "guard" =>
    \A r \in family_members :
      (r.parent_id = ev.parent /\ r.user_id = ev.actor /\ r.status = "active")
        => LET flag == CASE ev.op = "view" -> r.permissions.can_view
                         [] ev.op = "edit" -> r.permissions.can_edit
                         [] ev.op = "delete" -> r.permissions.can_delete
           IN IF r.role = "admin" THEN ev.code = 0
              ELSE (ev.code = 0) = flag

\* an active admin whose stored can_delete is false was let through for delete
C7_Witness ==
  /\ ev.phase = "guard" /\ ev.op = "delete" /\ ev.code = 0
  /\ \E r \in family_members :
       /\ r.parent_id = ev.parent /\ r.user_id = ev.actor
       /\ r.status = "active" /\ r.role = "admin"
       /\ ~r.permissions.can_delete

\* C8: every membership with role admin has can_view, can_edit and can_delete
\* all true in its stored flags.
C8_AdminFlagsAllTrue ==
  \A r \in family_members :
    r.role = "admin" =>
      (r.permissions.can_view /\ r.permissions.can_edit
         /\ r.permissions.can_delete)

\* C9: an invite by a user holding role admin on the parent is answered
\* AlreadyMember (400) when the invited user has an active or pending
\* membership there, and UserNotFound (404) when no profile has the email;
\* either way no membership row is created and nobody is notified.
C9_InviteRejected ==
  [][(/\ ev'.op = "invite"
      /\ \E r \in family_members : /\ r.parent_id = ev'.parent
                                   /\ r.user_id = ev'.actor
                                   /\ r.role = "admin")
       => /\ ev'.user = NoUser =>
               /\ ev'.code = 404
               /\ family_members' = family_members
               /\ ev'.notified = {}
          /\ (\E r \in family_members :
                /\ r.parent_id = ev'.parent /\ r.user_id = ev'.user
                /\ r.status \in {"active", "pending"}) =>
               /\ ev'.code = 400
               /\ family_members' = family_members
               /\ ev'.notified = {}]_vars

\* an admin invited a user whose invitation is still pending and was answered
\* 400
C9_Witness ==
  /\ ev.op = "invite" /\ ev.code = 400 /\ ev.notified = {}
  /\ \E r \in family_members :
       /\ r.parent_id = ev.parent /\ r.user_id = ev.user
       /\ r.status = "pending"

\* C10: no two membership rows have the same user and the same parent.
C10_OneRowPerPair ==
  \A r1, r2 \in family_members :
    (r1.parent_id = r2.parent_id /\ r1.user_id = r2.user_id) => r1 = r2

\* of two invitations of the same user that both passed their checks, the
\* second insert was refused by the table and the first row is the only one
C10_Witness ==
  /\ ev.op = "invite" /\ ev.phase = "write" /\ ev.code = 500
  /\ \E r \in family_members :
       /\ r.parent_id = ev.parent /\ r.user_id = ev.user
       /\ r.status = "pending"

\* C11: an accept request turns a membership from pending to active, with
\* accepted_at stamped, exactly when the row named by the request belongs to
\* the caller and is pending; every other accept request is answered 404 and
\* leaves family_members as it was.
C11_AcceptOnlyPendingInvitee ==
  [][(ev = NoEvent /\ ev'.op = "accept") =>
       LET hit == {r \in family_members :
                     r.id = ev'.mid /\ r.user_id = ev'.actor
                     /\ r.status = "pending"}
       IN IF hit # {}
          THEN /\ ev'.code = 200
               /\ family_members' =
                    (family_members \ hit) \cup
                    {[r EXCEPT !.status = "active", !.accepted_at = TRUE] :
                       r \in hit}
          ELSE /\ ev'.code = 404
               /\ family_members' = family_members]_vars

\* an invited user has accepted their pending invitation
C11_Witness ==
  /\ ev.op = "accept" /\ ev.code = 200
  /\ \E r \in family_members :
       /\ r.id = ev.mid /\ r.user_id = ev.actor
       /\ r.status = "active" /\ r.accepted_at = TRUE
       /\ r.invited_by # ev.actor

\* C12: a decline request deletes the membership row exactly when the row
\* named by the request belongs to the caller and is pending; then the pair
\* has no row left and the inviter gets one notification; every other decline
\* request is answered 404, deletes nothing and notifies nobody.
C12_DeclineOnlyPendingInvitee ==
  [][(ev = NoEvent /\ ev'.op = "decline") =>
       LET hit == {r \in family_members :
                     r.id = ev'.mid /\ r.user_id = ev'.actor
                     /\ r.status = "pending"}
       IN IF hit # {}
          THEN /\ ev'.code = 200
               /\ family_members' = family_members \ hit
               /\ \A h \in hit :
                    /\ ~ \E r \in family_members' :
                           r.parent_id = h.parent_id /\ r.user_id = h.user_id
                    /\ ev'.notified = {h.invited_by}
          ELSE /\ ev'.code = 404
               /\ family_members' = family_members
               /\ ev'.notified = {}]_vars

\* an invited user has declined their pending invitation
C12_Witness ==
  /\ ev.op = "decline" /\ ev.code = 200
  /\ ev.user \in Users /\ ev.user # ev.actor /\ ev.notified = {ev.user}
  /\ ~ \E r \in family_members :
         r.parent_id = ev.parent /\ r.user_id = ev.actor

\* C13: a createNotification call for a registered user inserts exactly one
\* notifications row for that user before any push is attempted, and the
\* push step that follows leaves the rows as they are whatever each delivery
\* reports (no subscription, sent, failed, gone).
C13_RowBeforePush ==
  [][/\ (ev = NoEvent /\ ev'.op = "createNotification"
         /\ ev'.user \in Users) =>
          /\ \E n \in notifications' \ notifications :
               /\ n.user_id = ev'.user /\ n.id = ev'.mid
               /\ notifications' = notifications \cup {n}
          /\ ev'.push = {}
          /\ push_subscriptions' = push_subscriptions
     /\ (ev'.op = "createNotification" /\ ev'.phase = "push") =>
          /\ ev.phase = "insert"
          /\ \E n \in notifications : n.id = ev.mid /\ n.user_id = ev.user
          /\ notifications' = notifications]_vars

\* one delivery failed, another reported gone, and the row is there
C13_Witness ==
  /\ ev.op = "createNotification" /\ ev.phase = "push"
  /\ \E a \in ev.push : a.result = "gone"
  /\ \E a \in ev.push : a.result = "failed"
  /\ Cardinality({n \in notifications :
                    n.id = ev.mid /\ n.user_id = ev.user}) = 1

\* C14: in every step the subscriptions whose delivery reported gone (410)
\* become inactive and every other subscription row stays as it was: a
\* delivery that was sent or failed for another cause deactivates nothing.
C14_GoneDeactivatesOnlyThat ==
  [][push_subscriptions' =
       {IF [id |-> s.id, result |-> "gone"] \in ev'.push
        THEN [s EXCEPT !.is_active = FALSE] ELSE s :
          s \in push_subscriptions}]_vars

\* of two devices of one user the gone one is inactive, the failed one active
C14_Witness ==
  /\ ev.phase = "push"
  /\ [id |-> "d1", result |-> "gone"] \in ev.push
  /\ [id |-> "d2", result |-> "failed"] \in ev.push
  /\ \E s \in push_subscriptions : s.id = "d1" /\ ~ s.is_active
  /\ \E s \in push_subscriptions : s.id = "d2" /\ s.is_active
  /\ \E s \in push_subscriptions : s.id = "d3" /\ s.is_active

\* C15: a medication scan inserts, for every time of an active medication
\* and every active member of its recipient, one row when the time is
\* exactly five minutes after the clock and none otherwise; a time past
\* midnight is not counted as five minutes after 23:57.
C15_ReminderFiveMinutesBefore ==
  [][(ev = NoEvent /\ ev'.op = "sendMedicationReminders") =>
       \A med \in resources["medications"], i \in Slots,
          m \in family_members :
         (/\ med.is_active /\ i \in DOMAIN med.times
          /\ m.parent_id = med.parent_id /\ m.status = "active") =>
           Cardinality({n \in notifications' \ notifications :
                          /\ n.user_id = m.user_id /\ n.type = "medication"
                          /\ n.ref = med.id /\ n.slot = i})
           = IF (med.times[i][1] * 60 + med.times[i][2])
                  - (now.hour * 60 + now.minute) = 5
             THEN 1 ELSE 0]_vars

\* C16: the rows a reminder scan inserts are addressed to users with an
\* active membership only.
C16_RemindersOnlyActive ==
  [][(ev = NoEvent /\ ev'.op \in {"sendMedicationReminders",
                                  "sendAppointmentReminders"}) =>
       \A n \in notifications' \ notifications :
         \E m \in family_members :
           m.user_id = n.user_id /\ m.status = "active"]_vars

\* C17: a user with an active membership never holds two reminder rows of
\* the same medication, the same scheduled time and the same day.
C17_OneReminderPerSlotPerDay ==
  \A n1, n2 \in notifications :
    (/\ n1.type = "medication" /\ n2.type = "medication"
     /\ n1.user_id = n2.user_id /\ n1.ref = n2.ref /\ n1.slot = n2.slot
     /\ n1.created_at.day = n2.created_at.day
     /\ \E m \in family_members :
          m.user_id = n1.user_id /\ m.status = "active") => n1 = n2

C19_RetentionThirtyDays ==
  [][(ev = NoEvent /\ ev'.op = "cleanOldNotifications") =>
       notifications' =
         {n \in notifications :
            Stamp(now) - Stamp(n.created_at) <= 30 * 24 * 60}]_vars

\* a sweep on day 31 has deleted a row and kept one created on day 1
C19_Witness ==
  /\ ev.op = "cleanOldNotifications" /\ now.day = 31
  /\ nextNid - 1 > Cardinality(notifications)
  /\ \E n \in notifications :
       /\ n.created_at.day = 1
       /\ Stamp(now) - Stamp(n.created_at) > 29 * 24 * 60

\* C20: a create request that answers 201 has inserted the parent row and
\* the creator's membership (admin, all flags true, active) and nothing
\* else; one whose membership insert failed answers 500 and leaves neither
\* the parent row nor a membership of it.
C20_ParentWithCreator ==
  [][(ev = NoEvent /\ ev'.op = "createParent") =>
       IF ev'.code = 201
       THEN /\ \E q \in parents' \ parents :
                 q.id = ev'.parent /\ parents' = parents \cup {q}
            /\ \E r \in family_members' \ family_members :
                 /\ family_members' = family_members \cup {r}
                 /\ r.parent_id = ev'.parent /\ r.user_id = ev'.actor
                 /\ r.role = "admin" /\ r.status = "active"
                 /\ r.permissions = [can_view |-> TRUE, can_edit |-> TRUE,
                                     can_delete |-> TRUE]
       ELSE /\ ev'.code = 500
            /\ ~ \E q \in parents' : q.id = ev'.parent
            /\ ~ \E r \in family_members' : r.parent_id = ev'.parent
            /\ family_members' = family_members]_vars

\* a create request has failed at the membership insert
C20_Witness ==
  /\ ev.op = "createParent" /\ ev.code = 500
  /\ ev.parent \in usedParents
  /\ ~ \E q \in parents : q.id = ev.parent

C28_SelfUpdateCannotModifySelf ==
  [][(ev = NoEvent /\ ev'.op = "updatePermissions"
      /\ \E r \in family_members :
           r.id = ev'.mid /\ r.user_id = ev'.actor) =>
       /\ ev'.code = 400
       /\ family_members' = family_members]_vars

\* C28: an update request whose target row belongs to the caller leaves
\* family_members as it was; it is answered 400 (CannotModifySelf) when the
\* caller's role is admin and 403 otherwise, the admin check coming first.
C28_SelfUpdateRejected ==
  [][(ev = NoEvent /\ ev'.op = "updatePermissions") =>
       \A r \in family_members :
         (r.id = ev'.mid /\ r.user_id = ev'.actor) =>
           /\ ev'.code = IF r.role = "admin" THEN 400 ELSE 403
           /\ family_members' = family_members]_vars

\* an admin has asked to change their own membership and got 400
C28_Witness ==
  /\ ev.op = "updatePermissions" /\ ev.code = 400
  /\ \E r \in family_members :
       r.id = ev.mid /\ r.user_id = ev.actor /\ r.role = "admin"

\* C24: with the reads and writes of Accept and Decline interleaved, the
\* delete of a Decline that answers 200 never removes a row whose status is
\* active, that is, a row an Accept has answered 200 for in between.
C24_DeclineSparesActive ==
  [][(ev'.op = "decline" /\ ev'.phase = "write" /\ ev'.code = 200) =>
       ~ \E r \in family_members :
           /\ r.id = ev'.mid /\ r.status = "active"
           /\ r \notin family_members']_vars

\* C25: of the sweep and a manual status update that both write a past
\* scheduled appointment, the first write stays: a manual update leaves a
\* status the sweep has set to 'missed' as it is, and the sweep leaves a
\* status set to 'completed' as it is.
C25_FirstWriteWins ==
  [][/\ (ev = NoEvent /\ ev'.op = "appointments.status"
         /\ ev'.code = 200) =>
          \A a \in resources["appointments"] :
            (a.id = ev'.mid /\ a.status = "missed") =>
              ~ \E b \in resources'["appointments"] :
                  b.id = a.id /\ b.status = "completed"
     /\ (ev = NoEvent /\ ev'.op = "updateAppointmentStatuses") =>
          \A a \in resources["appointments"] :
            a.status = "completed" => a \in resources'["appointments"]]_vars

\* C23: the gate inside the appointment status handler decides as
\* checkFamilyPermission does for the same user, recipient and 'edit': the
\* request is refused with 403 exactly when the middleware would refuse it,
\* so an active admin is let through whatever the stored flags are.
C23_GateMatchesMiddleware ==
  [][(ev = NoEvent /\ ev'.op = "appointments.status"
      /\ ev'.code \in {200, 403}) =>
       ((ev'.code = 403) <=>
          (checkFamilyPermission(family_members, "edit", ev'.actor,
                                 ev'.parent) = 403))]_vars

\* C22: from a new recipient to its first report. Accepting a viewer
\* invite leaves the member active with can_edit false; adding a medication
\* passes the edit check for the active creator (201, row inserted) and is
\* denied for an active member whose can_edit is false (403, nothing
\* inserted); a dose confirmed as taken by a member allowed to view is logged
\* with status taken; the weekly report inserts exactly one notification per
\* admin row, whose total and taken count the recipient's logs of the week
\* and whose adherence is 100 when all were taken and 0 when none was.
C22_FirstWeek ==
  [][ev = NoEvent =>
      /\ (ev'.op = "accept" /\ ev'.code = 200) =>
           \A m \in family_members :
             (m.id = ev'.mid /\ m.role = "viewer"
                /\ m.permissions = DefaultPerms) =>
               \E a \in family_members' :
                 /\ a.id = m.id /\ a.status = "active"
                 /\ a.user_id = ev'.actor /\ ~a.permissions.can_edit
      /\ (ev'.op = "medications.post"
            /\ \E q \in parents : q.id = ev'.parent) =>
           LET fm == MemberOf(family_members, ev'.parent, ev'.actor)
           IN /\ (fm # NullRow /\ fm.status = "active" /\ fm.role = "admin"
                    /\ fm.permissions = AllTrue) =>
                   /\ ev'.code = 201
                   /\ \E r \in resources'["medications"] :
                        r.id = ev'.mid /\ r.parent_id = ev'.parent
              /\ (fm # NullRow /\ fm.status = "active"
                    /\ ~fm.permissions.can_edit) =>
                   ev'.code = 403 /\ resources' = resources
      /\ (ev'.op = "medications.confirm" /\ ev'.code = 201) =>
           \A u \in Actors, id \in ResIds :
             ConfirmMedication(u, id, "taken") =>
               \E l \in resources'["medication_logs"] :
                 /\ l \notin resources["medication_logs"]
                 /\ l.medication_id = id /\ l.status = "taken"
                 /\ l.confirmed_by = u
      /\ (ev'.op = "weeklyReport") =>
           /\ \A n \in notifications' \ notifications :
                \E m \in family_members :
                  m.role = "admin" /\ m.user_id = n.user_id
           /\ \A m \in family_members :
                m.role = "admin" =>
                  LET rows == {n \in notifications' \ notifications :
                                 /\ n.user_id = m.user_id
                                 /\ n.data.parent_id = m.parent_id}
                      logs == {l \in resources["medication_logs"] :
                                 l.parent_id = m.parent_id}
                      good == {l \in logs : l.status = "taken"}
                  IN /\ Cardinality(rows) = 1
                     /\ \A n \in rows :
                          /\ n.data.total = Cardinality(logs)
                          /\ n.data.taken = Cardinality(good)
                          /\ (good = logs /\ logs # {}) =>
                               n.data.adherence = 100
                          /\ good = {} => n.data.adherence = 0
    ]_vars

C22_Witness ==
  /\ ev.op = "weeklyReport"
  /\ \E a \in family_members :
       /\ a.user_id = "u1" /\ a.parent_id = "p1" /\ a.role = "admin"
       /\ a.status = "active"
  /\ \E b \in family_members :
       /\ b.user_id = "u2" /\ b.parent_id = "p1" /\ b.role = "viewer"
       /\ b.status = "active" /\ ~b.permissions.can_edit
  /\ \E r \in resources["medications"] : r.parent_id = "p1"
  /\ \E l \in resources["medication_logs"] :
       /\ resources["medication_logs"] = {l}
       /\ l.status = "taken" /\ l.confirmed_by = "u1"
  /\ \E n \in notifications :
       /\ {x \in notifications : x.user_id = "u1"} = {n}
       /\ n.data.adherence = 100 /\ n.data.total = 1 /\ n.data.taken = 1

\* C26: on the default cadence, once a day is over every scheduled time of
\* an active medication has a reminder row of that day for every active
\* member of the recipient.
C26_EveryTimeRemindedDaily ==
  \A d \in 0..ScanDays :
    d < now.day =>
      \A med \in resources["medications"], m \in family_members :
        (/\ med.is_active /\ m.parent_id = med.parent_id
         /\ m.status = "active") =>
          \A i \in DOMAIN med.times :
            \E n \in notifications :
              /\ n.user_id = m.user_id /\ n.type = "medication"
              /\ n.ref = med.id /\ n.slot = i /\ n.created_at.day = d

\* C29: in a sendPushNotification call that has read the user's active
\* subscriptions, each of them is delivered to exactly once: a delivery
\* step settles one waiting subscription and leaves every other one waiting
\* or settled as it was, whatever it reports and whether or not the
\* deactivation write succeeds, and the call returns only when none waits.
C29_EverySubscriptionAttempted ==
  [][/\ (ev = NoEvent /\ ev'.op = "sendPushNotification"
           /\ ev'.push # {}) =>
          {a.id : a \in ev'.push} =
            {x.id : x \in ActiveSubscriptions(push_subscriptions, ev'.user)}
     /\ (ev.op = "sendPushNotification" /\ ev.phase = "deliver"
           /\ ev'.phase = "deliver") =>
          \E a \in ev.push :
            /\ a.result = "pending"
            /\ \E r \in PushResults :
                 ev'.push = (ev.push \ {a}) \cup {[id |-> a.id, result |-> r]}
     /\ (ev.op = "sendPushNotification" /\ ev.phase = "deliver"
           /\ ev'.phase = "settled") =>
          /\ {a.id : a \in ev'.push} = {a.id : a \in ev.push}
          /\ \A a \in ev'.push :
               /\ a.result \in PushResults
               /\ Cardinality({b \in ev'.push : b.id = a.id}) = 1]_vars

\* both devices of u1 were tried: one failed, the other reported gone and
\* its deactivation write failed
C29_Witness ==
  /\ ev.op = "sendPushNotification" /\ ev.phase = "settled"
  /\ ev.user = "u1"
  /\ ev.push = {[id |-> "d1", result |-> "failed"],
                [id |-> "d2", result |-> "gone"]}
  /\ \E x \in push_subscriptions : x.id = "d2" /\ x.is_active

\* C30: after a handler has written its mutation, the createNotification
\* calls that follow leave the store as it is and the response code as the
\* handler chose it, whether each row could be inserted or not and whatever
\* the deliveries report; rows are inserted only for the users the handler
\* notifies.
C30_NotificationFailureKeepsMutation ==
  [][(ev.phase = "req" /\ ev'.phase = "notified") =>
       /\ store' = store
       /\ ev'.code = ev.code
       /\ ev'.op = ev.op /\ ev'.mid = ev.mid
       /\ \A n \in notifications' \ notifications :
            n.user_id \in ev.notified
       /\ notifications \subseteq notifications']_vars

\* a medication was added with 201 and the row for the member to notify
\* could not be inserted
C30_Witness ==
  /\ ev.op = "medications.post" /\ ev.phase = "notified" /\ ev.code = 201
  /\ ev.notified # {}
  /\ \E r \in resources["medications"] : r.id = ev.mid
  /\ \A n \in notifications : n.user_id \notin ev.notified

\* C21: a job whose body throws ends in its own catch, never outside it,
\* and after any caught failure every job, the failed one included, is
\* started again on a later tick of its own.
C21_JobsIsolated ==
  /\ [](ev.phase # "crashed")
  /\ \A k \in DOMAIN CronJobs :
       (ev.phase = "caught") ~> (ev.op = CronJobs[k] /\ ev.phase = "start")

\* the reminder job threw at midnight and the expiry job of the same tick
\* was started after it
C21_Witness ==
  /\ ev.op = "expiredMedications" /\ ev.phase = "start"
  /\ "medicationReminders" \in ev.logged
  /\ now.hour = 0 /\ now.minute = 0

====
